---- MODULE Spec2Model ----
(***************************************************************************)
(* Model of the version/changelog engine of kubebuilder-release-tools      *)
(* (notes/compose/notes.go): release branches and tags, LatestRelease,     *)
(* CurrentVersion and ExpectedNextVersion, over the git queries of         *)
(* notes/git/utils.go.                                                     *)
(*                                                                         *)
(* Strings are sequences of one-character strings, so that rendering and   *)
(* parsing are computed, not assumed.  Version numbers are uint64 in the   *)
(* code; the model keeps them far below 2^64, so an increment never wraps. *)
(***************************************************************************)
EXTENDS Integers, Sequences, FiniteSets, TLC

(***************************************************************************)
(* Bounds of the model.                                                    *)
(***************************************************************************)
\* largest major / minor / patch of a current tag given to ExpectedNextVersion
MaxVer == 1
\* largest pre-release ordinal of a current tag given to ExpectedNextVersion
MaxPreNum == 1
\* largest X of a release-X branch and largest Y of a release-0.Y branch,
\* and largest major / minor of a tag the closest-tag query answers with
MaxBranch == 2
\* largest patch of a tag the closest-tag query answers with
MaxPatch == 1

(***************************************************************************)
(* Strings.                                                                *)
(***************************************************************************)
\* the characters the model uses, in byte order (Go compares strings by byte)
Chars ==
  << "+", "-", ".", "0", "1", "2", "3", "4", "5", "6", "7", "8", "9", "@",
     "a", "b", "c", "d", "e", "f", "g", "h", "i", "j", "k", "l", "m", "n",
     "o", "p", "q", "r", "s", "t", "u", "v", "w", "x", "y", "z", "{", "}",
     "~" >>

CharRank(ch) == CHOOSE i \in 1..Len(Chars) : Chars[i] = ch

Numbers == {"0", "1", "2", "3", "4", "5", "6", "7", "8", "9"}

Letters ==
  {"a", "b", "c", "d", "e", "f", "g", "h", "i", "j", "k", "l", "m", "n",
   "o", "p", "q", "r", "s", "t", "u", "v", "w", "x", "y", "z"}

\* semver's alphanum: letters, digits and the hyphen
AlphaNum == Numbers \cup Letters \cup {"-"}

DigitChar(d) == Chars[d + 4]

DigitVal(ch) == CharRank(ch) - 4

\* fmt's %d / strconv.FormatUint: the decimal digits of n
RECURSIVE Digits(_)
Digits(n) == IF n < 10 THEN << DigitChar(n) >>
             ELSE Digits(n \div 10) \o << DigitChar(n % 10) >>

\* Go's string comparison: -1, 0 or 1, byte by byte, a proper prefix first
RECURSIVE StrCompare(_, _)
StrCompare(s, t) ==
  IF s = << >> /\ t = << >> THEN 0
  ELSE IF s = << >> THEN -1
  ELSE IF t = << >> THEN 1
  ELSE IF CharRank(Head(s)) < CharRank(Head(t)) THEN -1
  ELSE IF CharRank(Head(s)) > CharRank(Head(t)) THEN 1
  ELSE StrCompare(Tail(s), Tail(t))

Alpha == << "a", "l", "p", "h", "a" >>
Beta == << "b", "e", "t", "a" >>
Rc == << "r", "c" >>
Candidate == << "c", "a", "n", "d", "i", "d", "a", "t", "e" >>

(***************************************************************************)
(* github.com/blang/semver/v4, as notes.go uses it.                        *)
(***************************************************************************)
\* semver.PRVersion{VersionStr: s}
PRStr(s) == [VersionStr |-> s, VersionNum |-> 0, IsNum |-> FALSE]

\* semver.PRVersion{VersionNum: n, IsNum: true}
PRNum(n) == [VersionStr |-> << >>, VersionNum |-> n, IsNum |-> TRUE]

\* semver.Version{Major, Minor, Patch, Pre, Build}; a nil slice is << >>
Version(major, minor, patch, pre, build) ==
  [Major |-> major, Minor |-> minor, Patch |-> patch, Pre |-> pre,
   Build |-> build]

IntCompare(a, b) == IF a = b THEN 0 ELSE IF a > b THEN 1 ELSE -1

\* semver.PRVersion.Compare
PRVersionCompare(v, o) ==
  IF v.IsNum /\ ~o.IsNum THEN -1
  ELSE IF ~v.IsNum /\ o.IsNum THEN 1
  ELSE IF v.IsNum /\ o.IsNum THEN IntCompare(v.VersionNum, o.VersionNum)
  ELSE StrCompare(v.VersionStr, o.VersionStr)

\* the loop of semver.Version.Compare over the two pre-release lists
RECURSIVE PreCompare(_, _)
PreCompare(p, q) ==
  IF p = << >> /\ q = << >> THEN 0
  ELSE IF p = << >> THEN -1
  ELSE IF q = << >> THEN 1
  ELSE LET c == PRVersionCompare(Head(p), Head(q))
       IN  IF c = 0 THEN PreCompare(Tail(p), Tail(q)) ELSE c

\* semver.Version.Compare: build metadata is ignored
VersionCompare(v, o) ==
  IF v.Major # o.Major THEN IntCompare(v.Major, o.Major)
  ELSE IF v.Minor # o.Minor THEN IntCompare(v.Minor, o.Minor)
  ELSE IF v.Patch # o.Patch THEN IntCompare(v.Patch, o.Patch)
  ELSE IF Len(v.Pre) = 0 /\ Len(o.Pre) = 0 THEN 0
  ELSE IF Len(v.Pre) = 0 THEN 1
  ELSE IF Len(o.Pre) = 0 THEN -1
  ELSE PreCompare(v.Pre, o.Pre)

\* semver.Version.LE
VersionLE(v, o) == VersionCompare(v, o) <= 0

\* semver.Version.EQ
VersionEQ(v, o) == VersionCompare(v, o) = 0

\* semver.Version.IncrementMajor
IncrementMajor(v) == [v EXCEPT !.Major = @ + 1, !.Minor = 0, !.Patch = 0]

\* semver.Version.IncrementMinor
IncrementMinor(v) == [v EXCEPT !.Minor = @ + 1, !.Patch = 0]

\* semver.Version.IncrementPatch
IncrementPatch(v) == [v EXCEPT !.Patch = @ + 1]

\* strings.IndexRune: the 1-based place of the first ch in s, 0 if there is none
IndexRune(s, ch) ==
  IF \E i \in 1..Len(s) : s[i] = ch
    THEN CHOOSE i \in 1..Len(s) : s[i] = ch /\ \A j \in 1..(i - 1) : s[j] # ch
    ELSE 0

\* strings.Split(s, sep) for a one-character separator
RECURSIVE Split(_, _)
Split(s, sep) ==
  LET i == IndexRune(s, sep)
  IN  IF i = 0 THEN << s >>
      ELSE << SubSeq(s, 1, i - 1) >> \o Split(SubSeq(s, i + 1, Len(s)), sep)

\* strings.SplitN(s, sep, n) for a one-character separator and n >= 1
RECURSIVE SplitN(_, _, _)
SplitN(s, sep, n) ==
  LET i == IndexRune(s, sep)
  IN  IF n = 1 \/ i = 0 THEN << s >>
      ELSE << SubSeq(s, 1, i - 1) >> \o SplitN(SubSeq(s, i + 1, Len(s)), sep, n - 1)

\* semver's containsOnly(s, set): true of the empty string
containsOnly(s, set) == \A i \in 1..Len(s) : s[i] \in set

\* semver's hasLeadingZeroes
hasLeadingZeroes(s) == Len(s) > 1 /\ s[1] = "0"

\* the value of a string of decimal digits
RECURSIVE DecimalValue(_)
DecimalValue(s) ==
  IF s = << >> THEN 0
  ELSE 10 * DecimalValue(SubSeq(s, 1, Len(s) - 1)) + DigitVal(s[Len(s)])

\* the decimal digits of 2^64 - 1
MaxUint64Digits == << "1", "8", "4", "4", "6", "7", "4", "4", "0", "7", "3", "7", "0", "9", "5", "5", "1", "6", "1", "5" >>

\* a string of decimal digits without its leading zeroes
StripZeroes(s) ==
  IF \A i \in 1..Len(s) : s[i] = "0" THEN << >>
  ELSE SubSeq(s, CHOOSE i \in 1..Len(s) :
                   s[i] # "0" /\ \A j \in 1..(i - 1) : s[j] = "0", Len(s))

\* a numeral without leading zeroes is larger than 2^64 - 1
ExceedsUint64(stripped) ==
  \/ Len(stripped) > Len(MaxUint64Digits)
  \/ /\ Len(stripped) = Len(MaxUint64Digits)
     /\ StrCompare(stripped, MaxUint64Digits) = 1

\* strconv.ParseUint(s, 10, 64): -1 stands for the error (a syntax error, or
\* a value out of range)
ParseUint(s) ==
  IF s = << >> \/ ~containsOnly(s, Numbers) THEN -1
  ELSE IF ExceedsUint64(StripZeroes(s)) THEN -1
  ELSE DecimalValue(s)

\* a numeric field of semver.Parse (major, minor or patch): -1 is the error
ParseNumericField(s) ==
  IF ~containsOnly(s, Numbers) THEN -1
  ELSE IF hasLeadingZeroes(s) THEN -1
  ELSE ParseUint(s)

\* semver.NewPRVersion: [ok, pr]
NewPRVersion(s) ==
  IF s = << >> THEN [ok |-> FALSE, pr |-> PRNum(0)]
  ELSE IF containsOnly(s, Numbers)
    THEN IF hasLeadingZeroes(s) THEN [ok |-> FALSE, pr |-> PRNum(0)]
         ELSE [ok |-> TRUE, pr |-> PRNum(ParseUint(s))]
  ELSE IF containsOnly(s, AlphaNum) THEN [ok |-> TRUE, pr |-> PRStr(s)]
  ELSE [ok |-> FALSE, pr |-> PRNum(0)]

ZeroVersion == Version(0, 0, 0, << >>, << >>)

ParseFailed == [ok |-> FALSE, v |-> ZeroVersion]

\* the tail of semver.Parse: the three numbers, the pre-release parts as
\* NewPRVersion returned them, and the build parts
SemverParseChecked(major, minor, patch, pres, build) ==
  IF major = -1 \/ minor = -1 \/ patch = -1 THEN ParseFailed
  ELSE IF \E i \in 1..Len(pres) : ~pres[i].ok THEN ParseFailed
  ELSE IF \E i \in 1..Len(build) :
            Len(build[i]) = 0 \/ ~containsOnly(build[i], AlphaNum)
    THEN ParseFailed
  ELSE [ok |-> TRUE,
        v |-> Version(major, minor, patch, [i \in 1..Len(pres) |-> pres[i].pr],
                      build)]

\* the pre-release list of strings turned into PRVersions
NewPRVersions(prerelease) ==
  [i \in 1..Len(prerelease) |-> NewPRVersion(prerelease[i])]

\* semver.Parse once the build metadata is cut off: noBuild is "patch" or
\* "patch-prerelease", preIndex the place of its first '-' (0: none)
SemverParsePre(majorStr, minorStr, noBuild, preIndex, build) ==
  IF preIndex # 0
    THEN CHOOSE r \in
           {SemverParseChecked(major, minor, patch, pres, build) :
              major \in {ParseNumericField(majorStr)},
              minor \in {ParseNumericField(minorStr)},
              patch \in {ParseNumericField(SubSeq(noBuild, 1, preIndex - 1))},
              pres \in {NewPRVersions(
                          Split(SubSeq(noBuild, preIndex + 1, Len(noBuild)), "."))}} :
           TRUE
    ELSE CHOOSE r \in
           {SemverParseChecked(major, minor, patch, << >>, build) :
              major \in {ParseNumericField(majorStr)},
              minor \in {ParseNumericField(minorStr)},
              patch \in {ParseNumericField(noBuild)}} :
           TRUE

\* semver.Parse from the third part on: rest is "patch[-prerelease][+build]",
\* buildIndex the place of its first '+' (0: none)
SemverParseBuild(majorStr, minorStr, rest, buildIndex) ==
  IF buildIndex # 0
    THEN CHOOSE r \in
           {SemverParsePre(majorStr, minorStr, noBuild, IndexRune(noBuild, "-"),
                           build) :
              noBuild \in {SubSeq(rest, 1, buildIndex - 1)},
              build \in {Split(SubSeq(rest, buildIndex + 1, Len(rest)), ".")}} :
           TRUE
    ELSE CHOOSE r \in
           {SemverParsePre(majorStr, minorStr, rest, preIndex, << >>) :
              preIndex \in {IndexRune(rest, "-")}} :
           TRUE

\* semver.Parse after strings.SplitN(s, ".", 3)
SemverParseParts(parts) ==
  IF Len(parts) # 3 THEN ParseFailed
  ELSE CHOOSE r \in
         {SemverParseBuild(parts[1], parts[2], parts[3], buildIndex) :
            buildIndex \in {IndexRune(parts[3], "+")}} :
         TRUE

\* semver.Parse: [ok, v]
SemverParse(s) ==
  IF Len(s) = 0 THEN ParseFailed
  ELSE CHOOSE r \in {SemverParseParts(parts) : parts \in {SplitN(s, ".", 3)}} :
         TRUE

\* semver.PRVersion.String
PRVersionString(pr) == IF pr.IsNum THEN Digits(pr.VersionNum) ELSE pr.VersionStr

\* parts joined by dots, each rendered by an operator
RECURSIVE JoinPre(_)
JoinPre(pre) ==
  IF Len(pre) = 1 THEN PRVersionString(pre[1])
  ELSE PRVersionString(Head(pre)) \o << "." >> \o JoinPre(Tail(pre))

RECURSIVE JoinBuild(_)
JoinBuild(build) ==
  IF Len(build) = 1 THEN build[1]
  ELSE Head(build) \o << "." >> \o JoinBuild(Tail(build))

\* semver.Version.String
VersionString(v) ==
  Digits(v.Major) \o << "." >> \o Digits(v.Minor) \o << "." >> \o Digits(v.Patch)
  \o (IF Len(v.Pre) > 0 THEN << "-" >> \o JoinPre(v.Pre) ELSE << >>)
  \o (IF Len(v.Build) > 0 THEN << "+" >> \o JoinBuild(v.Build) ELSE << >>)

(***************************************************************************)
(* Committish values (git.Committish): a release tag, the first commit of  *)
(* a branch, or any user-supplied committish.                              *)
(***************************************************************************)
ReleaseTagOf(v) == [type |-> "ReleaseTag", tag |-> v]

FirstCommitOf(commit, b) == [type |-> "FirstCommit", Commit |-> commit, Branch |-> b]

SomeCommittishOf(s) == [type |-> "SomeCommittish", ref |-> s]

\* the Go type assertion currentVersion.(ReleaseTag)
IsTag(committish) == committish.type = "ReleaseTag"

(***************************************************************************)
(* ReleaseKind and ReleaseInfo.                                            *)
(***************************************************************************)
ReleaseFinal == 0
ReleaseAlpha == 1
ReleaseBeta == 2
ReleaseCandidate == 3

ReleaseKinds == {ReleaseFinal, ReleaseAlpha, ReleaseBeta, ReleaseCandidate}

ReleaseInfo(kind, pre10) == [Kind |-> kind, Pre10 |-> pre10]

(***************************************************************************)
(* ChangeLog.nextFinalVersion and ChangeLog.ExpectedNextVersion.           *)
(***************************************************************************)
\* mutant of nextFinalVersion: the cases are tried in the wrong order
nextFinalVersionFeaturesFirst(c, current, pre10) ==
  LET newTag == [current EXCEPT !.Pre = << >>, !.Build = << >>]
  IN  IF Len(c.Features) > 0 THEN IncrementMinor(newTag)
      ELSE IF Len(c.Breaking) > 0
        THEN IF current.Major = 0 /\ pre10
               THEN IncrementMinor(newTag)
               ELSE IncrementMajor(newTag)
      ELSE IncrementPatch(newTag)

\* mutant of nextFinalVersion: the Pre10 test is lost
nextFinalVersionIgnoresPre10(c, current, pre10) ==
  LET newTag == [current EXCEPT !.Pre = << >>, !.Build = << >>]
  IN  IF Len(c.Breaking) > 0 THEN IncrementMajor(newTag)
      ELSE IF Len(c.Features) > 0 THEN IncrementMinor(newTag)
      ELSE IncrementPatch(newTag)

nextFinalVersion(c, current, pre10) ==
  LET newTag == [current EXCEPT !.Pre = << >>, !.Build = << >>]
  IN  IF Len(c.Breaking) > 0
        THEN IF current.Major = 0 /\ pre10
               THEN IncrementMinor(newTag)
               ELSE IncrementMajor(newTag)
      ELSE IF Len(c.Features) > 0 THEN IncrementMinor(newTag)
      ELSE IncrementPatch(newTag)

\* the two switch statements that attach a pre-release of the wanted kind at 0;
\* ReleaseFinal matches no case and leaves the tag as it is
withPreZero(tag, kind) ==
  IF kind = ReleaseAlpha THEN [tag EXCEPT !.Pre = << PRStr(Alpha), PRNum(0) >>]
  ELSE IF kind = ReleaseBeta THEN [tag EXCEPT !.Pre = << PRStr(Beta), PRNum(0) >>]
  ELSE IF kind = ReleaseCandidate THEN [tag EXCEPT !.Pre = << PRStr(Rc), PRNum(0) >>]
  ELSE tag

\* alphaToAlpha || betaToBeta || candidateToCandidate
samePreKind(tag, kind) ==
  LET wasPre == Len(tag.Pre) > 0
  IN  \/ wasPre /\ tag.Pre[1] = PRStr(Alpha) /\ kind = ReleaseAlpha
      \/ wasPre /\ tag.Pre[1] = PRStr(Beta) /\ kind = ReleaseBeta
      \/ wasPre /\ tag.Pre[1] = PRStr(Candidate) /\ kind = ReleaseCandidate

\* mutant of finalFromTag: a pre-release is bumped on its way to final
finalFromTagAlwaysBumps(c, tag, pre10) ==
  [tag |-> nextFinalVersion(c, tag, pre10), err |-> "nil"]

\* ExpectedNextVersion for info.Kind == ReleaseFinal: pre --> final resets the
\* pre-release and keeps the version, final --> final bumps
finalFromTag(c, tag, pre10) ==
  IF Len(tag.Pre) > 0
    THEN [tag |-> [tag EXCEPT !.Pre = << >>], err |-> "nil"]
    ELSE [tag |-> nextFinalVersion(c, tag, pre10), err |-> "nil"]

\* mutant of bumpIfFinal: the bump of a final release is lost
bumpIfFinalNever(c, tag, pre10) == tag

\* "if the old release was a final release, bump according to rules"
bumpIfFinal(c, tag, pre10) ==
  IF tag.Pre = << >> THEN nextFinalVersion(c, tag, pre10) ELSE tag

\* mutant of olderCheck: the ordering check is lost
olderCheckOff(newTag, tag) == [tag |-> newTag, err |-> "nil"]

\* mutant of olderCheck: a new version equal to the current one passes
olderCheckAllowsEqual(newTag, tag) ==
  IF VersionCompare(newTag, tag) = -1
    THEN [tag |-> newTag, err |-> "older"]
    ELSE [tag |-> newTag, err |-> "nil"]

\* the final check: the new version must not be less than or equal to the
\* current one
olderCheck(newTag, tag) ==
  IF VersionLE(newTag, tag)
    THEN [tag |-> newTag, err |-> "older"]
    ELSE [tag |-> newTag, err |-> "nil"]

\* mutant of ExpectedNextVersionNoTag: the first release is 0.0.1
ExpectedNextVersionNoTagPatch(kind) ==
  [tag |-> withPreZero(Version(0, 0, 1, << >>, << >>), kind), err |-> "nil"]

\* ExpectedNextVersion when currentVersion is no ReleaseTag
ExpectedNextVersionNoTag(kind) ==
  [tag |-> withPreZero(Version(0, 1, 0, << >>, << >>), kind), err |-> "nil"]

\* the result is the pair the Go function returns: the tag and the error
ExpectedNextVersion(c, currentVersion, info) ==
  IF ~IsTag(currentVersion) THEN ExpectedNextVersionNoTag(info.Kind)
  ELSE IF info.Kind = ReleaseFinal
    THEN finalFromTag(c, currentVersion.tag, info.Pre10)
  ELSE IF samePreKind(currentVersion.tag, info.Kind)
    THEN [tag |-> [currentVersion.tag EXCEPT !.Pre[2].VersionNum = @ + 1],
          err |-> "nil"]
  ELSE olderCheck(
         withPreZero(bumpIfFinal(c, currentVersion.tag, info.Pre10), info.Kind),
         currentVersion.tag)

(***************************************************************************)
(* ReleaseBranch, LogEntry and ChangeLog values.                           *)
(***************************************************************************)
\* ReleaseBranch{Version: semver.Version{Major, Minor}, UseUpstream}; the
\* embedded version's patch, pre-release and build are never set
ReleaseBranch(major, minor, useUpstream) ==
  [Major |-> major, Minor |-> minor, UseUpstream |-> useUpstream]

LogEntry(prNumber, title) == [PRNumber |-> prNumber, Title |-> title]

ChangeLog(breaking, features, bugs, docs, infra, uncategorized) ==
  [Breaking |-> breaking, Features |-> features, Bugs |-> bugs,
   Docs |-> docs, Infra |-> infra, Uncategorized |-> uncategorized]

(***************************************************************************)
(* ReleaseBranch.String, ReleaseTag and LatestRelease.                     *)
(***************************************************************************)
ReleasePrefix == << "r", "e", "l", "e", "a", "s", "e", "-" >>

UpstreamSuffix == << "@", "{", "u", "}" >>

\* ReleaseBranch.String (and ReleaseBranch.Committish, which returns it)
ReleaseBranchString(b) ==
  LET upstreamPart == IF b.UseUpstream THEN UpstreamSuffix ELSE << >>
  IN  IF b.Major = 0
        THEN ReleasePrefix \o << "0", "." >> \o Digits(b.Minor) \o upstreamPart
        ELSE ReleasePrefix \o Digits(b.Major) \o upstreamPart

\* what releaseRE.FindStringSubmatch gives: whether the name matches, and the
\* groups minor and major ("" for the group of the alternative not taken)
NoMatch == [matched |-> FALSE, minor |-> << >>, major |-> << >>]

releaseREMatchRest(rest) ==
  IF /\ Len(rest) > 2 /\ rest[1] = "0" /\ rest[2] = "."
     /\ containsOnly(SubSeq(rest, 3, Len(rest)), Numbers)
    THEN [matched |-> TRUE, minor |-> SubSeq(rest, 3, Len(rest)), major |-> << >>]
  ELSE IF Len(rest) > 0 /\ containsOnly(rest, Numbers)
    THEN [matched |-> TRUE, minor |-> << >>, major |-> rest]
  ELSE NoMatch

releaseREMatch(branchName) ==
  IF Len(branchName) >= Len(ReleasePrefix)
     /\ SubSeq(branchName, 1, Len(ReleasePrefix)) = ReleasePrefix
    THEN releaseREMatchRest(SubSeq(branchName, Len(ReleasePrefix) + 1,
                                   Len(branchName)))
    ELSE NoMatch

\* ReleaseFromBranch returning an error, with the zero ReleaseBranch
BranchError == [ok |-> FALSE, b |-> ReleaseBranch(0, 0, FALSE)]

\* mutant of branchFromNumber: zero is let through
branchFromNumberZeroToo(number, isMinor) ==
  IF number = -1 THEN BranchError
  ELSE IF isMinor THEN [ok |-> TRUE, b |-> ReleaseBranch(0, number, FALSE)]
  ELSE [ok |-> TRUE, b |-> ReleaseBranch(number, 0, FALSE)]

\* a case of the switch of ReleaseFromBranch, once strconv.ParseUint returned
branchFromNumber(number, isMinor) ==
  IF number = -1 THEN BranchError
  ELSE IF number = 0 THEN BranchError
  ELSE IF isMinor THEN [ok |-> TRUE, b |-> ReleaseBranch(0, number, FALSE)]
  ELSE [ok |-> TRUE, b |-> ReleaseBranch(number, 0, FALSE)]

\* ReleaseFromBranch after the match: the switch
ReleaseFromMatch(parts) ==
  IF ~parts.matched THEN BranchError
  ELSE IF parts.minor # << >> THEN branchFromNumber(ParseUint(parts.minor), TRUE)
  ELSE IF parts.major # << >> THEN branchFromNumber(ParseUint(parts.major), FALSE)
  ELSE BranchError

\* ReleaseFromBranch: [ok, b], ok when the error is nil
ReleaseFromBranch(branchName) == ReleaseFromMatch(releaseREMatch(branchName))

\* ReleaseTag.Committish (and ReleaseTag.String)
ReleaseTagCommittish(v) == << "v" >> \o VersionString(v)

\* ReleaseTag.Validate: TRUE when it returns nil
ReleaseTagValidate(v) ==
  IF Len(v.Pre) # 0 /\ Len(v.Pre) # 2 THEN FALSE
  ELSE IF Len(v.Pre) = 2 /\ (v.Pre[1].IsNum \/ ~v.Pre[2].IsNum) THEN FALSE
  ELSE TRUE

\* the tail of parseReleaseTag: parsed is what semver.Parse returned
parseReleaseTagParsed(parsed) ==
  IF ~parsed.ok THEN [res |-> "err", tag |-> ZeroVersion]
  ELSE IF ~ReleaseTagValidate(parsed.v) THEN [res |-> "err", tag |-> ZeroVersion]
  ELSE [res |-> "ok", tag |-> parsed.v]

\* parseReleaseTag: res is "ok", "err", or "panic" (tagRawBytes[0] of an empty
\* tag is an index out of range, a run-time panic)
parseReleaseTag(tagRaw) ==
  IF Len(tagRaw) = 0 THEN [res |-> "panic", tag |-> ZeroVersion]
  ELSE IF tagRaw[1] # "v" THEN [res |-> "err", tag |-> ZeroVersion]
  ELSE CHOOSE r \in
         {parseReleaseTagParsed(parsed) : parsed \in {SemverParse(Tail(tagRaw))}} :
         TRUE

\* mutant of VerifyTagBelongs: the minor of a 0.Y branch is not compared
VerifyTagBelongsMajorOnly(b, tag) == tag.Major = b.Major

\* ReleaseBranch.VerifyTagBelongs: TRUE when it returns nil
VerifyTagBelongs(b, tag) ==
  ~(tag.Major # b.Major \/ (tag.Major = 0 /\ tag.Minor # b.Minor))

\* a nil git.Committish
NilCommittish == [type |-> "nil"]

\* the tail of LatestRelease: parsed is what parseReleaseTag returned
LatestReleaseParsed(b, parsed, checkVersion) ==
  IF parsed.res = "panic"
    THEN [val |-> NilCommittish, err |-> "nil", panicked |-> TRUE]
  ELSE IF parsed.res = "err"
    THEN [val |-> NilCommittish, err |-> "notAVersion", panicked |-> FALSE]
  ELSE IF ~checkVersion
    THEN [val |-> ReleaseTagOf(parsed.tag), err |-> "nil", panicked |-> FALSE]
  ELSE [val |-> ReleaseTagOf(parsed.tag),
        err |-> IF VerifyTagBelongs(b, parsed.tag) THEN "nil" ELSE "wrongBranch",
        panicked |-> FALSE]

\* mutant of LatestRelease: a failed ClosestTag is an error, no fallback
LatestReleaseNoFallback(b, closest, first, checkVersion) ==
  IF ~closest.ok
    THEN [val |-> NilCommittish, err |-> "noFirstCommit", panicked |-> FALSE]
  ELSE LatestReleaseParsed(b, parseReleaseTag(closest.tag), checkVersion)

\* ReleaseBranch.LatestRelease, given what the two git queries answer:
\* closest = [ok, tag] for ClosestTag(b), first = [ok, commit] for
\* FirstCommit(b.String()), which is asked only when ClosestTag fails.
\* The result is the returned pair, or panicked.
LatestRelease(b, closest, first, checkVersion) ==
  IF ~closest.ok
    THEN IF ~first.ok
           THEN [val |-> NilCommittish, err |-> "noFirstCommit", panicked |-> FALSE]
           ELSE [val |-> FirstCommitOf(first.commit, b), err |-> "nil",
                 panicked |-> FALSE]
  ELSE LatestReleaseParsed(b, parseReleaseTag(closest.tag), checkVersion)

\* the git queries LatestRelease makes, in order, with their answers
LatestReleaseQueries(b, closest, first) ==
  << [op |-> "ClosestTag", ref |-> ReleaseBranchString(b), ok |-> closest.ok,
      out |-> closest.tag] >>
  \o (IF closest.ok THEN << >>
      ELSE << [op |-> "FirstCommit", ref |-> ReleaseBranchString(b),
               ok |-> first.ok, out |-> first.commit] >>)

\* mutant of checkOrClearUpstream: the flag is never cleared
checkOrClearUpstreamKeeps(b, hasUpstream) == b

\* checkOrClearUpstream, given what HasUpstream(branch.String()) answers
\* (asked only when UseUpstream is set): the branch afterwards
checkOrClearUpstream(b, hasUpstream) ==
  IF ~b.UseUpstream THEN b
  ELSE IF ~hasUpstream THEN [b EXCEPT !.UseUpstream = FALSE]
  ELSE b

\* the git query checkOrClearUpstream makes, if any
checkOrClearUpstreamQueries(b, hasUpstream) ==
  IF ~b.UseUpstream THEN << >>
  ELSE << [op |-> "HasUpstream", ref |-> ReleaseBranchString(b),
           ok |-> hasUpstream, out |-> << >>] >>

\* uint64 subtraction of one: 0 - 1 wraps around to 2^64 - 1
MaxUint64 == 2147483647

Uint64Minus1(x) == IF x = 0 THEN MaxUint64 ELSE x - 1

\* mutant of AliasCase: the X case is missing
AliasCaseNoMajor(b, tag) ==
  IF b.Major = 0 /\ tag.Major = 0 /\ tag.Minor = Uint64Minus1(b.Minor) THEN "0.Y"
  ELSE IF b.Major = 1 /\ tag.Major = 0 THEN "1"
  ELSE "default"

\* the switch of CurrentVersion: which case a tag found on branch falls in
AliasCase(b, tag) ==
  IF b.Major = 0 /\ tag.Major = 0 /\ tag.Minor = Uint64Minus1(b.Minor) THEN "0.Y"
  ELSE IF b.Major = 1 /\ tag.Major = 0 THEN "1"
  ELSE IF b.Major > 0 /\ tag.Major = b.Major - 1 THEN "X"
  ELSE "default"

\* the previous release branch CurrentVersion builds in each of the cases
PrevRelFor(b, tag, origUseUpstream) ==
  LET which == AliasCase(b, tag)
  IN  IF which = "0.Y" THEN ReleaseBranch(0, tag.Minor, origUseUpstream)
      ELSE IF which = "1" THEN ReleaseBranch(0, tag.Minor, b.UseUpstream)
      ELSE ReleaseBranch(tag.Major, 0, b.UseUpstream)

(***************************************************************************)
(* PRTypeFromTitle (notes/common/prefix.go).  A title is a sequence of     *)
(* code points; a code point outside ASCII is written by its name, such as *)
(* "U+2728".  A valid UTF-8 string has another as a byte prefix exactly    *)
(* when it has it as a prefix of code points.                              *)
(***************************************************************************)
UncategorizedPR == 0
BreakingPR == 1
FeaturePR == 2
BugfixPR == 3
DocsPR == 4
InfraPR == 5

emojiFeature == << "U+2728" >>

emojiBugfix == << "U+1F41B" >>

emojiDocs == << "U+1F4D6" >>

emojiInfra == << "U+1F331" >>

emojiBreaking == << "U+26A0" >>

emojiInfraLegacy == << "U+1F3C3" >>

aliasFeature == << ":", "s", "p", "a", "r", "k", "l", "e", "s", ":" >>

aliasBugfix == << ":", "b", "u", "g", ":" >>

aliasDocs == << ":", "b", "o", "o", "k", ":" >>

aliasInfra == << ":", "s", "e", "e", "d", "l", "i", "n", "g", ":" >>

aliasBreaking == << ":", "w", "a", "r", "n", "i", "n", "g", ":" >>

aliasInfraLegacy == << ":", "r", "u", "n", "n", "i", "n", "g", ":" >>

\* "️", variation selector 16
variationSelector == << "U+FE0F" >>

\* unicode.IsSpace, on the white space the titles of the model contain
IsSpace(ch) == ch \in {" ", "\t"}

\* strings.TrimSpace
TrimSpace(s) ==
  IF \A i \in 1..Len(s) : IsSpace(s[i]) THEN << >>
  ELSE SubSeq(s,
              CHOOSE i \in 1..Len(s) :
                ~IsSpace(s[i]) /\ \A j \in 1..(i - 1) : IsSpace(s[j]),
              CHOOSE i \in 1..Len(s) :
                ~IsSpace(s[i]) /\ \A j \in (i + 1)..Len(s) : IsSpace(s[j]))

\* mutant of HasPrefix: the prefix is looked for anywhere in the string
HasPrefixAnywhere(s, prefix) ==
  \E k \in 0..(Len(s) - Len(prefix)) :
    SubSeq(s, k + 1, k + Len(prefix)) = prefix

\* strings.HasPrefix
HasPrefix(s, prefix) ==
  Len(s) >= Len(prefix) /\ SubSeq(s, 1, Len(prefix)) = prefix

\* strings.TrimPrefix
TrimPrefix(s, prefix) ==
  IF HasPrefix(s, prefix) THEN SubSeq(s, Len(prefix) + 1, Len(s)) ELSE s

\* one case of the switch: the two strings.HasPrefix tests
caseMatches(title, alias, emoji) == HasPrefix(title, alias) \/ HasPrefix(title, emoji)

\* one case of the switch: the two strings.TrimPrefix calls, one after the other
caseStrips(title, alias, emoji) == TrimPrefix(TrimPrefix(title, alias), emoji)

\* the end of PRTypeFromTitle: strip the variation selector, trim, return
stripSelector(prType, title) ==
  [type |-> prType, title |-> TrimSpace(TrimPrefix(title, variationSelector))]

\* PRTypeFromTitle after title = strings.TrimSpace(title)
PRTypeFromTrimmed(title) ==
  IF Len(title) = 0 THEN [type |-> UncategorizedPR, title |-> title]
  ELSE IF caseMatches(title, aliasFeature, emojiFeature)
    THEN stripSelector(FeaturePR, caseStrips(title, aliasFeature, emojiFeature))
  ELSE IF caseMatches(title, aliasBugfix, emojiBugfix)
    THEN stripSelector(BugfixPR, caseStrips(title, aliasBugfix, emojiBugfix))
  ELSE IF caseMatches(title, aliasDocs, emojiDocs)
    THEN stripSelector(DocsPR, caseStrips(title, aliasDocs, emojiDocs))
  ELSE IF caseMatches(title, aliasInfra, emojiInfra)
    THEN stripSelector(InfraPR, caseStrips(title, aliasInfra, emojiInfra))
  ELSE IF caseMatches(title, aliasBreaking, emojiBreaking)
    THEN stripSelector(BreakingPR, caseStrips(title, aliasBreaking, emojiBreaking))
  ELSE IF caseMatches(title, aliasInfraLegacy, emojiInfraLegacy)
    THEN stripSelector(InfraPR,
                       caseStrips(title, aliasInfraLegacy, emojiInfraLegacy))
  ELSE [type |-> UncategorizedPR, title |-> title]

\* PRTypeFromTitle: the pair it returns
PRTypeFromTitle(title) ==
  CHOOSE r \in {PRTypeFromTrimmed(trimmed) : trimmed \in {TrimSpace(title)}} : TRUE

(***************************************************************************)
(* ChangesSince, lineReader and entryFromCommit (notes/compose/notes.go).  *)
(***************************************************************************)
\* a format of fmt.Sscanf is a sequence whose elements are the characters of
\* the format, the verb %s being one element
FormatCommit == << "c", "o", "m", "m", "i", "t", " ", "%s" >>

FormatMerge ==
  << "M", "e", "r", "g", "e", " ", "p", "u", "l", "l", " ", "r", "e", "q", "u", "e", "s", "t", " ", "#", "%s" >>
  \o << " ", "f", "r", "o", "m", " ", "%s" >>

\* the number of verbs of a format, which is len(args) at the call
RECURSIVE VerbCount(_)
VerbCount(format) ==
  IF format = << >> THEN 0
  ELSE (IF Head(format) = "%s" THEN 1 ELSE 0) + VerbCount(Tail(format))

\* the input without its leading white space
SkipSpace(input) ==
  IF \A i \in 1..Len(input) : IsSpace(input[i]) THEN << >>
  ELSE SubSeq(input,
              CHOOSE i \in 1..Len(input) :
                ~IsSpace(input[i]) /\ \A j \in 1..(i - 1) : IsSpace(input[j]),
              Len(input))

\* the length of the token an input without leading white space starts with
TokenLen(input) ==
  IF \A i \in 1..Len(input) : ~IsSpace(input[i]) THEN Len(input)
  ELSE (CHOOSE i \in 1..Len(input) :
          IsSpace(input[i]) /\ \A j \in 1..(i - 1) : ~IsSpace(input[j])) - 1

\* fmt.Sscanf stopping with an error after it stored args
ScanError(args) == [n |-> Len(args), err |-> TRUE, args |-> args]

\* fmt.Sscanf(input, format, ...) for formats of characters, spaces and %s:
\* the count n, whether err is not nil, and the strings stored
RECURSIVE Sscanf(_, _, _)
\* the scan going on with the rest of the input and of the format (each
\* evaluated once, before the scan goes on)
ScanRest(input, format, args) ==
  CHOOSE r \in {Sscanf(i, f, a) : i \in {input}, f \in {format}, a \in {args}} :
    TRUE

\* the verb %s on an input whose leading white space was skipped
ScanToken(input, format, args) ==
  IF input = << >> THEN ScanError(args)
  ELSE ScanRest(SubSeq(input, TokenLen(input) + 1, Len(input)), format,
                Append(args, SubSeq(input, 1, TokenLen(input))))

Sscanf(input, format, args) ==
  IF format = << >> THEN [n |-> Len(args), err |-> FALSE, args |-> args]
  ELSE IF Head(format) = "%s"
    THEN CHOOSE r \in {ScanToken(i, Tail(format), args) : i \in {SkipSpace(input)}} :
           TRUE
  ELSE IF Head(format) = " "
    THEN IF input = << >> \/ IsSpace(input[1])
           THEN ScanRest(SkipSpace(input), Tail(format), args)
           ELSE ScanError(args)
  ELSE IF input # << >> /\ input[1] = Head(format)
    THEN ScanRest(Tail(input), Tail(format), args)
  ELSE ScanError(args)

\* a lineReader
LineReader(lines, cur) == [lines |-> lines, cur |-> cur]

\* lineReader.more
more(l) == Len(l.lines) > 0

\* lineReader.line
line(l) == l.cur

\* lineReader.next: the reader afterwards, and what it returned
next(l) ==
  IF Len(l.lines) = 0 THEN [l |-> LineReader(l.lines, << >>), ok |-> FALSE]
  ELSE [l |-> LineReader(Tail(l.lines), Head(l.lines)), ok |-> TRUE]

\* lineReader.expectScanf, once next was called: what it returned, and the
\* strings scanned
scanned(nextResult, format, scan) ==
  [l |-> nextResult.l,
   ok |-> nextResult.ok /\ ~scan.err /\ scan.n = VerbCount(format),
   args |-> scan.args]

\* lineReader.expectScanf
expectScanf(l, format) ==
  CHOOSE r \in {scanned(n, format, Sscanf(n.l.cur, format, << >>)) : n \in {next(l)}} :
    TRUE

\* lineReader.expectBlank, once next was called
blank(nextResult) ==
  [l |-> nextResult.l, ok |-> nextResult.ok /\ nextResult.l.cur = << >>]

\* lineReader.expectBlank
expectBlank(l) == CHOOSE r \in {blank(n) : n \in {next(l)}} : TRUE

\* the end of entryFromCommit: the entry appended to the bucket of its type
appendEntry(log, typed, prNum) ==
  IF typed.type = FeaturePR
    THEN [log EXCEPT !.Features = Append(@, LogEntry(prNum, typed.title))]
  ELSE IF typed.type = BugfixPR
    THEN [log EXCEPT !.Bugs = Append(@, LogEntry(prNum, typed.title))]
  ELSE IF typed.type = DocsPR
    THEN [log EXCEPT !.Docs = Append(@, LogEntry(prNum, typed.title))]
  ELSE IF typed.type = InfraPR
    THEN [log EXCEPT !.Infra = Append(@, LogEntry(prNum, typed.title))]
  ELSE IF typed.type = BreakingPR
    THEN [log EXCEPT !.Breaking = Append(@, LogEntry(prNum, typed.title))]
  ELSE [log EXCEPT !.Uncategorized = Append(@, LogEntry(prNum, typed.title))]

\* ChangeLog.entryFromCommit
entryFromCommit(log, prNum, title) ==
  CHOOSE r \in {appendEntry(log, typed, prNum) : typed \in {PRTypeFromTitle(title)}} :
    TRUE

\* one pass of the loop of ChangesSince: the reader and the log afterwards,
\* and whether the loop was left by break
PassResult(l, log, broke) == [l |-> l, log |-> log, broke |-> broke]

\* ... from if !lines.next() on
passAtTitle(nextResult, log, prNumber) ==
  IF ~nextResult.ok THEN PassResult(nextResult.l, log, TRUE)
  ELSE PassResult(nextResult.l,
                  entryFromCommit(log, prNumber, line(nextResult.l)), FALSE)

\* ... from if !lines.expectBlank() on
passAtBlank(blankResult, log, prNumber) ==
  IF ~blankResult.ok THEN PassResult(blankResult.l, log, FALSE)
  ELSE CHOOSE r \in {passAtTitle(n, log, prNumber) : n \in {next(blankResult.l)}} :
         TRUE

\* ... from if !lines.expectScanf("Merge pull request #%s from %s", ...) on
passAtMerge(mergeResult, log) ==
  IF ~mergeResult.ok THEN PassResult(mergeResult.l, log, FALSE)
  ELSE CHOOSE r \in {passAtBlank(b, log, mergeResult.args[1]) :
                      b \in {expectBlank(mergeResult.l)}} : TRUE

\* mutant of passAtCommit: a line that is no commit line is not consumed
passAtCommitStuck(l, commitResult, log) ==
  IF ~commitResult.ok THEN PassResult(l, log, FALSE)
  ELSE CHOOSE r \in {passAtMerge(m, log) :
                      m \in {expectScanf(commitResult.l, FormatMerge)}} : TRUE

\* ... from if !lines.expectScanf("commit %s", &commit) on; l is the reader
\* before the pass
passAtCommit(l, commitResult, log) ==
  IF ~commitResult.ok THEN PassResult(commitResult.l, log, FALSE)
  ELSE CHOOSE r \in {passAtMerge(m, log) :
                      m \in {expectScanf(commitResult.l, FormatMerge)}} : TRUE

\* the body of the loop
ScanPassResult(l, log) ==
  CHOOSE r \in {passAtCommit(l, c, log) : c \in {expectScanf(l, FormatCommit)}} :
    TRUE

(***************************************************************************)
(* State.                                                                  *)
(***************************************************************************)
VARIABLES
  \* one call of ChangeLog.ExpectedNextVersion
  changeLog,       \* the receiver c
  currentVersion,  \* the argument currentVersion
  info,            \* the argument info
  nextVersion,     \* what the call returned: [tag, err]
  envPc,           \* "idle", "called" or "returned"
  \* one call of CurrentVersion
  branch,          \* the caller's ReleaseBranch, which CurrentVersion may change
  branchArg,       \* the branch as the caller passed it in
  origUseUpstream, \* the local origUseUpstream
  latestHere,      \* what branch.LatestRelease(gitImpl, false) returned
  prevRel,         \* the local prevRel, once the switch has built it
  cvResult,        \* what CurrentVersion returned: [val, err]
  cvPc,            \* "idle", "enter", "latestHere", "switch", "latestPrev",
                   \* "done" or "panic"
  \* the git repository behind gitImpl
  upstreamExists,  \* [here, prev]: whether HasUpstream succeeds on the upstream
                   \* ref of the branch, and of the previous line's branch
  gitLog,          \* the queries made so far, with their answers
  \* one call of PRTypeFromTitle
  title,           \* the argument title
  classified,      \* what the call returned: [type, title]
  titlePc,         \* "idle", "called" or "returned"
  \* one call of ReleaseFromBranch, then of String on its result
  branchName,      \* the argument branchName
  parsedBranch,    \* what ReleaseFromBranch returned: [ok, b]
  rendered,        \* what String returned
  rfbPc,           \* "idle", "called", "parsed" or "printed"
  \* one call of ChangesSince
  logChunks,       \* the pieces the text of the merge commits is made of
  commitsRaw,      \* what MergeCommitsBetween answers: [ok, text]
  lines,           \* the lineReader lines
  csLog,           \* the local log
  csResult,        \* what ChangesSince returned: [log, err]
  csPc,            \* "idle", "called", "loop" or "done"
  \* one call of ClosestFinal
  cfHistory,       \* the tags of the history behind gitImpl, oldest first
  cfCurrent,       \* the argument current
  toCheck,         \* the local toCheck, as its Committish()
  toCheckTag,      \* the local toCheckTag
  cfResult,        \* what ClosestFinal returned: [res, tag]
  cfPc,            \* "idle", "called", "loop" or "done"
  \* one call of the callback RunPlugins returns
  plugins,         \* what the entrypoint of each plugin returns: "nil" or "failed"
  plPc,            \* where the goroutine of each plugin is
  wgCount,         \* the counter of the WaitGroup done
  closerPc,        \* where the goroutine that closes res is
  closes,          \* how often close(res) ran
  rpPanic,         \* the run-time panic of a goroutine, or "none"
  errCount,        \* the local errCount
  rpResult,        \* what the callback returned: [err, count]
  rpPc,            \* where the callback is
  \* one call of onSync
  syImpl,          \* the receiver: "PRPlugin" (verify/plugin.go) or "plugin" (part_013)
  runs,            \* the check runs of the plugin's name at GitHub, in the order of creation
  validation,      \* what the check of the pull request finds: "pass" or "fail"
  checkRun,        \* the local checkRun
  syResult,        \* the error onSync returned, "nil" for none
  syPc,            \* "idle", "called", "got", "dup" or "done"
  \* one run of the release-notes command
  fromTag,         \* the value of the flag -from, empty when not given
  flagBranch,      \* the value of the flag -branch on the command line, empty when not given
  useUpstreams,    \* the value of the flag -use-upstream
  currentBranch,   \* what git.Actual.CurrentBranch answers: [ok, name]
  notesBranchName, \* *branchName
  notesBranch,     \* what ReleaseFromBranch returned, with UseUpstream as run sets it
  rnRange,         \* the call that computes the changes: [fn, branch, since]
  rnResult,        \* the error run returned so far, "nil" for none
  rnPc             \* "idle", "called", "parse", "changes" or "done"

envVars == << changeLog, currentVersion, info, nextVersion, envPc >>

cvVars == << branch, branchArg, origUseUpstream, latestHere, prevRel,
             cvResult, cvPc, upstreamExists, gitLog >>

titleVars == << title, classified, titlePc >>

rfbVars == << branchName, parsedBranch, rendered, rfbPc >>

csVars == << logChunks, commitsRaw, lines, csLog, csResult, csPc >>

cfVars == << cfHistory, cfCurrent, toCheck, toCheckTag, cfResult, cfPc >>

rpVars == << plugins, plPc, wgCount, closerPc, closes, rpPanic, errCount,
             rpResult, rpPc >>

syVars == << syImpl, runs, validation, checkRun, syResult, syPc >>

rnVars == << fromTag, flagBranch, useUpstreams, currentBranch,
             notesBranchName, notesBranch, rnRange, rnResult, rnPc >>

vars ==
  << envVars, cvVars, titleVars, rfbVars, csVars, cfVars, rpVars, syVars,
     rnVars >>

(***************************************************************************)
(* The inputs of ExpectedNextVersion.                                      *)
(***************************************************************************)
SomeEntry == LogEntry(<< "3", "3" >>, << "x" >>)

EntryLists == {<< >>, << SomeEntry >>}

\* Breaking and Features vary freely; at most one of the other buckets is filled
SampleChangeLogs ==
  {ChangeLog(b, f, << >>, << >>, << >>, << >>) : b \in EntryLists, f \in EntryLists}
  \cup {ChangeLog(b, f, << SomeEntry >>, << >>, << >>, << >>) : b \in EntryLists, f \in EntryLists}
  \cup {ChangeLog(b, f, << >>, << SomeEntry >>, << >>, << >>) : b \in EntryLists, f \in EntryLists}
  \cup {ChangeLog(b, f, << >>, << >>, << SomeEntry >>, << >>) : b \in EntryLists, f \in EntryLists}
  \cup {ChangeLog(b, f, << >>, << >>, << >>, << SomeEntry >>) : b \in EntryLists, f \in EntryLists}

\* the pre-release kinds a tag accepted by ReleaseTag.Validate may carry: the
\* three the tool writes, and one it does not ("candidate")
PreKindStrs == {Alpha, Beta, Rc, Candidate}

SamplePres ==
  {<< >>} \cup {<< PRStr(k), PRNum(n) >> : k \in PreKindStrs, n \in 0..MaxPreNum}

SampleBuilds == {<< >>, << << "b" >> >>}

SampleTags ==
  {Version(ma, mi, pa, pre, build) :
     ma \in 0..MaxVer, mi \in 0..MaxVer, pa \in 0..MaxVer,
     pre \in SamplePres, build \in SampleBuilds}

SampleCommit == << "a", "b", "c", "d", "e", "f" >>

\* what relnotes.go hands to ExpectedNextVersion as "since": a release tag or
\* a first commit from CurrentVersion, or the -from flag as it was typed
SampleCurrents ==
  {ReleaseTagOf(t) : t \in SampleTags}
  \cup {FirstCommitOf(SampleCommit, ReleaseBranch(0, 1, FALSE)),
        SomeCommittishOf(SampleCommit)}

SampleInfos == {ReleaseInfo(k, p) : k \in ReleaseKinds, p \in BOOLEAN}

NoResult == [tag |-> Version(0, 0, 0, << >>, << >>), err |-> "none"]

(***************************************************************************)
(* SpecNext: one call of ExpectedNextVersion on any input.                 *)
(***************************************************************************)
NoBranch == ReleaseBranch(0, 0, FALSE)

NoReturn == [val |-> NilCommittish, err |-> "none"]

NoLatest == [val |-> NilCommittish, err |-> "none", panicked |-> FALSE]

cvIdle ==
  /\ branch = NoBranch
  /\ branchArg = NoBranch
  /\ origUseUpstream = FALSE
  /\ latestHere = NoLatest
  /\ prevRel = NoBranch
  /\ cvResult = NoReturn
  /\ cvPc = "idle"
  /\ upstreamExists = [here |-> FALSE, prev |-> FALSE]
  /\ gitLog = << >>

envIdle ==
  /\ changeLog = ChangeLog(<< >>, << >>, << >>, << >>, << >>, << >>)
  /\ currentVersion = NilCommittish
  /\ info = ReleaseInfo(ReleaseFinal, FALSE)
  /\ nextVersion = NoResult
  /\ envPc = "idle"

NoClassified == [type |-> UncategorizedPR, title |-> << >>]

titleIdle ==
  /\ title = << >>
  /\ classified = NoClassified
  /\ titlePc = "idle"

rfbIdle ==
  /\ branchName = << >>
  /\ parsedBranch = BranchError
  /\ rendered = << >>
  /\ rfbPc = "idle"

EmptyChangeLog == ChangeLog(<< >>, << >>, << >>, << >>, << >>, << >>)

NoChanges == [log |-> EmptyChangeLog, err |-> "none"]

csIdle ==
  /\ logChunks = << >>
  /\ commitsRaw = [ok |-> FALSE, text |-> << >>]
  /\ lines = LineReader(<< >>, << >>)
  /\ csLog = EmptyChangeLog
  /\ csResult = NoChanges
  /\ csPc = "idle"

cfIdle ==
  /\ cfHistory = << >>
  /\ cfCurrent = ZeroVersion
  /\ toCheck = << >>
  /\ toCheckTag = ZeroVersion
  /\ cfResult = [res |-> "none", tag |-> ZeroVersion]
  /\ cfPc = "idle"

NoPluginsResult == [err |-> "none", count |-> 0]

rpIdle ==
  /\ plugins = << >>
  /\ plPc = << >>
  /\ wgCount = 0
  /\ closerPc = "unstarted"
  /\ closes = 0
  /\ rpPanic = "none"
  /\ errCount = 0
  /\ rpResult = NoPluginsResult
  /\ rpPc = "idle"

NoRun == [id |-> 0, sha |-> "none", status |-> "none", conclusion |-> "none",
          summary |-> "none"]

syIdle ==
  /\ syImpl = "none"
  /\ runs = << >>
  /\ validation = "none"
  /\ checkRun = NoRun
  /\ syResult = "none"
  /\ syPc = "idle"

NoRange == [fn |-> "none", branch |-> NoBranch, since |-> << >>]

rnIdle ==
  /\ fromTag = << >>
  /\ flagBranch = << >>
  /\ useUpstreams = FALSE
  /\ currentBranch = [ok |-> FALSE, name |-> << >>]
  /\ notesBranchName = << >>
  /\ notesBranch = BranchError
  /\ rnRange = NoRange
  /\ rnResult = "none"
  /\ rnPc = "idle"

\* what each specification leaves alone
nextOthers ==
  << cvVars, titleVars, rfbVars, csVars,
  cfVars, rpVars, syVars, rnVars >>

nextOthersIdle ==
  cvIdle /\ titleIdle /\ rfbIdle /\ csIdle
  /\ cfIdle /\ rpIdle /\ syIdle /\ rnIdle

currentOthers ==
  << envVars, titleVars, rfbVars, csVars,
  cfVars, rpVars, syVars, rnVars >>

currentOthersIdle ==
  envIdle /\ titleIdle /\ rfbIdle /\ csIdle
  /\ cfIdle /\ rpIdle /\ syIdle /\ rnIdle

titleOthers ==
  << envVars, cvVars, rfbVars, csVars,
  cfVars, rpVars, syVars, rnVars >>

titleOthersIdle ==
  envIdle /\ cvIdle /\ rfbIdle /\ csIdle
  /\ cfIdle /\ rpIdle /\ syIdle /\ rnIdle

rfbOthers ==
  << envVars, cvVars, titleVars, csVars,
  cfVars, rpVars, syVars, rnVars >>

rfbOthersIdle ==
  envIdle /\ cvIdle /\ titleIdle /\ csIdle
  /\ cfIdle /\ rpIdle /\ syIdle /\ rnIdle

csOthers ==
  << envVars, cvVars, titleVars, rfbVars,
  cfVars, rpVars, syVars, rnVars >>

csOthersIdle ==
  envIdle /\ cvIdle /\ titleIdle /\ rfbIdle
  /\ cfIdle /\ rpIdle /\ syIdle /\ rnIdle

cfOthers ==
  << envVars, cvVars, titleVars, rfbVars,
  csVars, rpVars, syVars, rnVars >>

cfOthersIdle ==
  envIdle /\ cvIdle /\ titleIdle /\ rfbIdle
  /\ csIdle /\ rpIdle /\ syIdle /\ rnIdle

rpOthers ==
  << envVars, cvVars, titleVars, rfbVars,
  csVars, cfVars, syVars, rnVars >>

rpOthersIdle ==
  envIdle /\ cvIdle /\ titleIdle /\ rfbIdle
  /\ csIdle /\ cfIdle /\ syIdle /\ rnIdle

syOthers ==
  << envVars, cvVars, titleVars, rfbVars,
  csVars, cfVars, rpVars, rnVars >>

syOthersIdle ==
  envIdle /\ cvIdle /\ titleIdle /\ rfbIdle
  /\ csIdle /\ cfIdle /\ rpIdle /\ rnIdle

rnOthers ==
  << envVars, cvVars, titleVars, rfbVars,
  csVars, cfVars, rpVars, syVars >>

rnOthersIdle ==
  envIdle /\ cvIdle /\ titleIdle /\ rfbIdle
  /\ csIdle /\ cfIdle /\ rpIdle /\ syIdle

InitNext ==
  /\ nextOthersIdle
  /\ changeLog \in SampleChangeLogs
  /\ currentVersion \in SampleCurrents
  /\ info \in SampleInfos
  /\ nextVersion = NoResult
  /\ envPc = "called"

CallExpectedNextVersion ==
  /\ envPc = "called"
  /\ nextVersion' = ExpectedNextVersion(changeLog, currentVersion, info)
  /\ envPc' = "returned"
  /\ UNCHANGED << changeLog, currentVersion, info >>
  /\ UNCHANGED nextOthers

NextNext == CallExpectedNextVersion

SpecNext == InitNext /\ [][NextNext]_vars

(***************************************************************************)
(* The inputs of CurrentVersion and the answers of git.                    *)
(***************************************************************************)
\* the branches ReleaseFromBranch accepts: release-X and release-0.Y
SampleBranches ==
  {ReleaseBranch(x, 0, u) : x \in 1..MaxBranch, u \in BOOLEAN}
  \cup {ReleaseBranch(0, y, u) : y \in 1..MaxBranch, u \in BOOLEAN}

\* the versions some tag of the repository carries
GitTagVersions ==
  {Version(ma, mi, pa, pre, << >>) :
     ma \in 0..MaxBranch, mi \in 0..MaxBranch, pa \in 0..MaxPatch,
     pre \in {<< >>, << PRStr(Rc), PRNum(0) >>}}

\* tags that are no release tags, or odd ones
OddTags ==
  { << >>,
    << "v" >>,
    << "1", ".", "0", ".", "0" >>,
    << "v", "1", ".", "0" >>,
    << "v", "0", "1", ".", "0", ".", "0" >>,
    << "v", "1", ".", "0", ".", "0", "-", "r", "c" >>,
    << "v", "1", ".", "0", ".", "0", "-", "1" >>,
    << "v", "1", ".", "0", ".", "0", "-", "r", "c", ".", "1", ".", "2" >>,
    << "v", "1", ".", "0", ".", "0", "-", "f", "o", "o", ".", "1" >>,
    << "v", "1", ".", "0", ".", "0", "+", "b" >>,
    << "l", "a", "t", "e", "s", "t" >> }

RawTags == {ReleaseTagCommittish(v) : v \in GitTagVersions} \cup OddTags

\* ClosestTag: Tag("") and an error, or a tag
ClosestAnswers ==
  {[ok |-> FALSE, tag |-> << >>]} \cup {[ok |-> TRUE, tag |-> t] : t \in RawTags}

\* FirstCommit: "" and an error, or a commit
FirstAnswers ==
  {[ok |-> FALSE, commit |-> << >>], [ok |-> TRUE, commit |-> SampleCommit]}

(***************************************************************************)
(* SpecCurrent: one call of CurrentVersion, step by step: each action runs *)
(* the code up to and including its next git queries.                      *)
(***************************************************************************)
InitCurrent ==
  /\ currentOthersIdle
  /\ branch \in SampleBranches
  /\ branchArg = branch
  /\ origUseUpstream = FALSE
  /\ latestHere = NoLatest
  /\ prevRel = NoBranch
  /\ cvResult = NoReturn
  /\ cvPc = "enter"
  /\ upstreamExists \in [here : BOOLEAN, prev : BOOLEAN]
  /\ gitLog = << >>

\* origUseUpstream := branch.UseUpstream; checkOrClearUpstream(gitImpl, branch)
CurrentVersionEnter ==
  /\ cvPc = "enter"
  /\ origUseUpstream' = branch.UseUpstream
  /\ branch' = checkOrClearUpstream(branch, upstreamExists.here)
  /\ gitLog' = gitLog \o checkOrClearUpstreamQueries(branch, upstreamExists.here)
  /\ cvPc' = "latestHere"
  /\ UNCHANGED << branchArg, latestHere, prevRel, cvResult, upstreamExists >>
  /\ UNCHANGED currentOthers

\* latestHere, err := branch.LatestRelease(gitImpl, false)
LatestReleaseHere ==
  /\ cvPc = "latestHere"
  /\ \E closest \in ClosestAnswers, first \in FirstAnswers :
       \E r \in {LatestRelease(branch, closest, first, FALSE)} :
           /\ latestHere' = r
           /\ gitLog' = gitLog \o LatestReleaseQueries(branch, closest, first)
           /\ cvPc' = IF r.panicked THEN "panic" ELSE "switch"
  /\ UNCHANGED << branch, branchArg, origUseUpstream, prevRel, cvResult,
                  upstreamExists >>
  /\ UNCHANGED currentOthers

\* what CurrentVersion returns without looking at another branch, if it does
CurrentVersionReturn(b, latest) ==
  IF latest.err # "nil" THEN [val |-> NilCommittish, err |-> latest.err]
  ELSE IF ~IsTag(latest.val) THEN [val |-> latest.val, err |-> "nil"]
  ELSE [val |-> latest.val,
        err |-> IF VerifyTagBelongs(b, latest.val.tag) THEN "nil" ELSE "wrongBranch"]

\* whether CurrentVersion goes on to the previous release branch
LooksBack(b, latest) ==
  /\ latest.err = "nil"
  /\ IsTag(latest.val)
  /\ AliasCase(b, latest.val.tag) # "default"

\* the error check, the type assertion and the switch, up to and including
\* checkOrClearUpstream(gitImpl, &prevRel) in the three looking-back cases
CurrentVersionSwitch ==
  /\ cvPc = "switch"
  /\ IF LooksBack(branch, latestHere)
       THEN \E built \in {PrevRelFor(branch, latestHere.val.tag, origUseUpstream)} :
                /\ prevRel' = checkOrClearUpstream(built, upstreamExists.prev)
                /\ gitLog' = gitLog \o checkOrClearUpstreamQueries(built, upstreamExists.prev)
                /\ cvPc' = "latestPrev"
                /\ UNCHANGED cvResult
       ELSE /\ cvResult' = CurrentVersionReturn(branch, latestHere)
            /\ cvPc' = "done"
            /\ UNCHANGED << prevRel, gitLog >>
  /\ UNCHANGED << branch, branchArg, origUseUpstream, latestHere, upstreamExists >>
  /\ UNCHANGED currentOthers

\* return prevRel.LatestRelease(gitImpl, true)
LatestReleasePrev ==
  /\ cvPc = "latestPrev"
  /\ \E closest \in ClosestAnswers, first \in FirstAnswers :
       \E r \in {LatestRelease(prevRel, closest, first, TRUE)} :
           /\ cvResult' = [val |-> r.val, err |-> r.err]
           /\ gitLog' = gitLog \o LatestReleaseQueries(prevRel, closest, first)
           /\ cvPc' = IF r.panicked THEN "panic" ELSE "done"
  /\ UNCHANGED << branch, branchArg, origUseUpstream, latestHere, prevRel,
                  upstreamExists >>
  /\ UNCHANGED currentOthers

NextCurrent ==
  \/ CurrentVersionEnter
  \/ LatestReleaseHere
  \/ CurrentVersionSwitch
  \/ LatestReleasePrev

SpecCurrent == InitCurrent /\ [][NextCurrent]_vars

(***************************************************************************)
(* SpecTitle: one call of PRTypeFromTitle on any title.                    *)
(***************************************************************************)
\* the most pieces a title of the model is made of
MaxTitleTokens == 3

\* the rocket, which the documentation and the tests name as a marker
rocket == << "U+1F680" >>

aliasRocket == << ":", "r", "o", "c", "k", "e", "t", ":" >>

\* the pieces titles are made of: white space, a letter, a colon, the emoji
\* and their aliases, an alias cut short, the variation selector
TitleTokens ==
  { << " " >>, << "\t" >>, << "x" >>, << ":" >>, << ":", "b", "u", "g" >>,
    variationSelector, rocket, aliasRocket,
    emojiFeature, emojiBugfix, emojiDocs, emojiInfra, emojiBreaking,
    emojiInfraLegacy,
    aliasFeature, aliasBugfix, aliasDocs, aliasInfra, aliasBreaking,
    aliasInfraLegacy }

RECURSIVE Concat(_)
Concat(tokens) ==
  IF tokens = << >> THEN << >> ELSE Head(tokens) \o Concat(Tail(tokens))

SampleTitles ==
  {Concat(tokens) :
     tokens \in UNION {[1..n -> TitleTokens] : n \in 0..MaxTitleTokens}}

InitTitle ==
  /\ titleOthersIdle
  /\ title \in SampleTitles
  /\ classified = NoClassified
  /\ titlePc = "called"

CallPRTypeFromTitle ==
  /\ titlePc = "called"
  /\ classified' = PRTypeFromTitle(title)
  /\ titlePc' = "returned"
  /\ UNCHANGED title
  /\ UNCHANGED titleOthers

NextTitle == CallPRTypeFromTitle

SpecTitle == InitTitle /\ [][NextTitle]_vars

(***************************************************************************)
(* SpecBranch: one call of ReleaseFromBranch on any name, then, as         *)
(* relnotes does, UseUpstream set or not and the branch printed.           *)
(***************************************************************************)
\* the most pieces a branch name of the model is made of
MaxNameTokens == 4

\* the smallest numeral strconv.ParseUint finds out of range: 2^64
TooLarge == << "1", "8", "4", "4", "6", "7", "4", "4", "0", "7", "3", "7", "0", "9", "5", "5", "1", "6", "1", "6" >>

\* the pieces branch names are made of
NameTokens ==
  { ReleasePrefix, << "0" >>, << "1" >>, << "3" >>, << "." >>, << "0", "." >>,
    << "x" >>, TooLarge }

SampleNames ==
  {Concat(tokens) :
     tokens \in UNION {[1..n -> NameTokens] : n \in 0..MaxNameTokens}}

InitBranch ==
  /\ rfbOthersIdle
  /\ branchName \in SampleNames
  /\ parsedBranch = BranchError
  /\ rendered = << >>
  /\ rfbPc = "called"

CallReleaseFromBranch ==
  /\ rfbPc = "called"
  /\ parsedBranch' = ReleaseFromBranch(branchName)
  /\ rfbPc' = "parsed"
  /\ UNCHANGED << branchName, rendered >>
  /\ UNCHANGED rfbOthers

\* branch.UseUpstream = true, or not; then branch.String()
CallString ==
  /\ rfbPc = "parsed"
  /\ parsedBranch.ok
  /\ \E useUpstream \in BOOLEAN :
       \E b \in {[parsedBranch.b EXCEPT !.UseUpstream = useUpstream]} :
          /\ parsedBranch' = [parsedBranch EXCEPT !.b = b]
          /\ rendered' = ReleaseBranchString(b)
  /\ rfbPc' = "printed"
  /\ UNCHANGED branchName
  /\ UNCHANGED rfbOthers

NextBranch ==
  \/ CallReleaseFromBranch
  \/ CallString

SpecBranch == InitBranch /\ [][NextBranch]_vars

(***************************************************************************)
(* SpecChanges: one call of ChangesSince, pass by pass of its loop, on the *)
(* text MergeCommitsBetween answers with.                                  *)
(***************************************************************************)
\* the most pieces the text of the merge commits is made of
MaxChunks == 2

CommitLine == << "c", "o", "m", "m", "i", "t", " ", "6", "a", "f", "4", "e", "7" >>

MergeLine(prNumber) ==
  << "M", "e", "r", "g", "e", " ", "p", "u", "l", "l", " ", "r", "e", "q", "u", "e", "s", "t", " ", "#" >> \o prNumber
  \o << " ", "f", "r", "o", "m", " ", "f", "/", "b" >>

ManualMergeLine == << "M", "e", "r", "g", "e", " ", "b", "r", "a", "n", "c", "h", " ", "'", "x", "'" >>

\* a GitHub merge commit as git rev-list --merges --pretty=format:%B prints it
GitHubBlock(prNumber, prTitle) ==
  [kind |-> "github", pr |-> prNumber, title |-> prTitle,
   lines |-> << CommitLine, MergeLine(prNumber), << >>, prTitle >>]

\* a manual merge commit
ManualBlock ==
  [kind |-> "manual", pr |-> << >>, title |-> << >>,
   lines |-> << CommitLine, ManualMergeLine, << >> >>]

\* other lines
OtherLines(ls) == [kind |-> "other", pr |-> << >>, title |-> << >>, lines |-> ls]

SampleChunks ==
  { GitHubBlock(<< "1" >>, aliasBugfix \o << " ", "a" >>),
    GitHubBlock(<< "2", "0" >>, aliasBugfix \o << "b", " " >>),
    GitHubBlock(<< "3" >>, emojiFeature \o << "c" >>),
    GitHubBlock(<< "4" >>, << "c", "o", "m", "m", "i", "t", " ", "z" >>),
    GitHubBlock(<< "8" >>, aliasRocket \o << " ", "r" >>),
    ManualBlock,
    OtherLines(<< CommitLine >>),
    OtherLines(<< CommitLine, MergeLine(<< "5" >>) >>),
    OtherLines(<< CommitLine, MergeLine(<< "6" >>), << >> >>),
    OtherLines(<< CommitLine, MergeLine(<< "7" >>), << "d" >> >>),
    OtherLines(<< << "j", "u", "n", "k" >> >>),
    OtherLines(<< << >> >>) }

RECURSIVE LinesOf(_)
LinesOf(chunks) ==
  IF chunks = << >> THEN << >> ELSE Head(chunks).lines \o LinesOf(Tail(chunks))

\* the lines, each but the last followed by a newline
RECURSIVE JoinLines(_)
JoinLines(ls) ==
  IF ls = << >> THEN << >>
  ELSE IF Len(ls) = 1 THEN ls[1]
  ELSE ls[1] \o << "\n" >> \o JoinLines(Tail(ls))

SampleLogs == UNION {[1..n -> SampleChunks] : n \in 0..MaxChunks}

\* what MergeCommitsBetween can answer: the text of some pieces, with or
\* without a last newline, or an error
Answer(chunks, ok, text) == [chunks |-> chunks, ok |-> ok, text |-> text]

SampleAnswers ==
  {Answer(chunks, TRUE, JoinLines(LinesOf(chunks))) : chunks \in SampleLogs}
  \cup {Answer(chunks, TRUE, JoinLines(LinesOf(chunks)) \o << "\n" >>) :
          chunks \in SampleLogs}
  \cup {Answer(<< >>, FALSE, << >>)}

InitChanges ==
  /\ csOthersIdle
  /\ logChunks = << >>
  /\ commitsRaw = [ok |-> FALSE, text |-> << >>]
  /\ lines = LineReader(<< >>, << >>)
  /\ csLog = EmptyChangeLog
  /\ csResult = NoChanges
  /\ csPc = "called"

\* commitsRaw, err := gitImpl.MergeCommitsBetween(since, branch), up to the loop
CallMergeCommitsBetween ==
  /\ csPc = "called"
  /\ \E answer \in SampleAnswers :
       /\ logChunks' = answer.chunks
       /\ commitsRaw' = [ok |-> answer.ok, text |-> answer.text]
       /\ IF ~answer.ok
            THEN /\ csResult' = [log |-> EmptyChangeLog,
                                 err |-> "unable to list commits"]
                 /\ csPc' = "done"
                 /\ UNCHANGED << lines, csLog >>
            ELSE /\ lines' = LineReader(Split(answer.text, "\n"), << >>)
                 /\ csLog' = EmptyChangeLog
                 /\ csPc' = "loop"
                 /\ UNCHANGED csResult
  /\ UNCHANGED csOthers

\* one pass of for lines.more() { ... }
ScanPass ==
  /\ csPc = "loop"
  /\ more(lines)
  /\ \E r \in {ScanPassResult(lines, csLog)} :
       /\ lines' = r.l
       /\ csLog' = r.log
       /\ IF r.broke
            THEN csPc' = "done" /\ csResult' = [log |-> r.log, err |-> "nil"]
            ELSE csPc' = "loop" /\ UNCHANGED csResult
  /\ UNCHANGED << logChunks, commitsRaw >>
  /\ UNCHANGED csOthers

\* the loop ends: return log, nil
ReturnLog ==
  /\ csPc = "loop"
  /\ ~more(lines)
  /\ csResult' = [log |-> csLog, err |-> "nil"]
  /\ csPc' = "done"
  /\ UNCHANGED << logChunks, commitsRaw, lines, csLog >>
  /\ UNCHANGED csOthers

NextChanges ==
  \/ CallMergeCommitsBetween
  \/ ScanPass
  \/ ReturnLog

SpecChanges == InitChanges /\ [][NextChanges]_vars

\* ChangesSince is one sequential call: it keeps running until it returns
SpecChangesLive == SpecChanges /\ WF_vars(NextChanges)

(***************************************************************************)
(* SpecFinal: one call of ClosestFinal, query by query, over a linear      *)
(* history of tags.                                                        *)
(***************************************************************************)
\* the most tags of a history
MaxHistory == 3

\* the tags the history is made of: release tags, one of them with build
\* metadata, and a tag that is no release tag
HistoryTags ==
  { << "v", "0", ".", "1", ".", "0" >>,
    << "v", "1", ".", "0", ".", "0", "-", "r", "c", ".", "0" >>,
    << "v", "1", ".", "0", ".", "0" >>,
    << "v", "1", ".", "0", ".", "0", "+", "b" >>,
    << "v", "1", ".", "1", ".", "0" >>,
    << "l", "a", "t", "e", "s", "t" >> }

\* histories: every tag name at most once
SampleHistories ==
  {h \in UNION {[1..n -> HistoryTags] : n \in 0..MaxHistory} :
     \A i, j \in 1..Len(h) : h[i] = h[j] => i = j}

\* the release tags ClosestFinal is called with: v1.0.0-rc.0, v1.0.0, v1.1.0
SampleFinalCurrents ==
  { Version(1, 0, 0, << PRStr(Rc), PRNum(0) >>, << >>),
    Version(1, 0, 0, << >>, << >>),
    Version(1, 1, 0, << >>, << >>) }

\* gitImpl.ClosestTag(point + "~1"): the tag before the one named point, or
\* an error when there is no such name or no tag before it
ClosestTagBefore(history, point) ==
  IF \E i \in 2..Len(history) : history[i] = point
    THEN [ok |-> TRUE,
          tag |-> history[(CHOOSE i \in 2..Len(history) : history[i] = point) - 1]]
    ELSE [ok |-> FALSE, tag |-> << >>]

\* currentFinal
CurrentFinal(current) == [current EXCEPT !.Pre = << >>]

\* the condition of the loop
LoopCondition(tag, current) ==
  Len(tag.Pre) # 0 \/ VersionEQ(tag, CurrentFinal(current))

\* mutant of skipTo: the search stays where it is
skipToStays(point, tagRaw) == point

\* toCheck = git.SomeCommittish(string(tagRaw)) for a tag that is no release
\* tag
skipTo(point, tagRaw) == tagRaw

InitFinal ==
  /\ cfOthersIdle
  /\ cfHistory = << >>
  /\ cfCurrent = ZeroVersion
  /\ toCheck = << >>
  /\ toCheckTag = ZeroVersion
  /\ cfResult = [res |-> "none", tag |-> ZeroVersion]
  /\ cfPc = "called"

\* ClosestFinal(gitImpl, current) up to the loop
CallClosestFinal ==
  /\ cfPc = "called"
  /\ \E h \in SampleHistories, c \in SampleFinalCurrents :
       /\ cfHistory' = h
       /\ cfCurrent' = c
       /\ toCheck' = ReleaseTagCommittish(c)
       /\ toCheckTag' = c
  /\ cfPc' = "loop"
  /\ UNCHANGED cfResult
  /\ UNCHANGED cfOthers

\* one pass of the loop
QueryClosestTag ==
  /\ cfPc = "loop"
  /\ LoopCondition(toCheckTag, cfCurrent)
  /\ \E answer \in {ClosestTagBefore(cfHistory, toCheck)} :
       IF ~answer.ok
         THEN /\ cfResult' = [res |-> "query failed", tag |-> ZeroVersion]
              /\ cfPc' = "done"
              /\ UNCHANGED << toCheck, toCheckTag >>
         ELSE \E latestTag \in {parseReleaseTag(answer.tag)} :
                IF latestTag.res = "panic"
                  THEN /\ cfResult' = [res |-> "panic", tag |-> ZeroVersion]
                       /\ cfPc' = "done"
                       /\ UNCHANGED << toCheck, toCheckTag >>
                ELSE IF latestTag.res = "err"
                  THEN /\ toCheck' = skipTo(toCheck, answer.tag)
                       /\ UNCHANGED << toCheckTag, cfResult, cfPc >>
                ELSE /\ toCheck' = ReleaseTagCommittish(latestTag.tag)
                     /\ toCheckTag' = latestTag.tag
                     /\ UNCHANGED << cfResult, cfPc >>
  /\ UNCHANGED << cfHistory, cfCurrent >>
  /\ UNCHANGED cfOthers

\* after the loop
ReturnFinal ==
  /\ cfPc = "loop"
  /\ ~LoopCondition(toCheckTag, cfCurrent)
  /\ IF VersionEQ(toCheckTag, cfCurrent) \/ Len(toCheckTag.Pre) # 0
       THEN cfResult' = [res |-> "unable to locate", tag |-> ZeroVersion]
       ELSE cfResult' = [res |-> "ok", tag |-> toCheckTag]
  /\ cfPc' = "done"
  /\ UNCHANGED << cfHistory, cfCurrent, toCheck, toCheckTag >>
  /\ UNCHANGED cfOthers

NextFinal ==
  \/ CallClosestFinal
  \/ QueryClosestTag
  \/ ReturnFinal

SpecFinal == InitFinal /\ [][NextFinal]_vars

\* ClosestFinal is one sequential call: it keeps running until it returns
SpecFinalLive == SpecFinal /\ WF_vars(NextFinal)

(***************************************************************************)
(* The callback RunPlugins returns: one goroutine per plugin sends what    *)
(* the plugin's entrypoint returned on the unbuffered channel res, one     *)
(* more goroutine closes res once the WaitGroup done is at zero, and the   *)
(* callback counts the errors it receives until res is closed.             *)
(***************************************************************************)
MaxPlugins == 3

\* what the entrypoints of the plugins return
SamplePluginRuns == UNION {[1..n -> {"nil", "failed"}] : n \in 0..MaxPlugins}

\* mutant of WaitReturns: Wait does not wait
WaitReturnsAtOnce(counter) == TRUE

\* done.Wait() returns
WaitReturns(counter) == counter = 0

\* mutant of countError: counts that there was an error
countErrorOnce(count, err) == IF err = "nil" THEN count ELSE 1

\* the body of for err := range res
countError(count, err) == IF err = "nil" THEN count ELSE count + 1

\* what the callback returns
pluginsResult(count) ==
  IF count > 0 THEN [err |-> "plugins had errors", count |-> count]
  ELSE [err |-> "nil", count |-> 0]

\* the goroutines launched so far
Launched == {i \in 1..Len(plPc) : plPc[i] # "unlaunched"}

InitPlugins ==
  /\ rpOthersIdle
  /\ plugins = << >>
  /\ plPc = << >>
  /\ wgCount = 0
  /\ closerPc = "unstarted"
  /\ closes = 0
  /\ rpPanic = "none"
  /\ errCount = 0
  /\ rpResult = NoPluginsResult
  /\ rpPc = "called"

\* the callback is called: res := make(chan error); var done sync.WaitGroup
CallRunPlugins ==
  /\ rpPc = "called"
  /\ \E run \in SamplePluginRuns :
       /\ plugins' = run
       /\ plPc' = [i \in 1..Len(run) |-> "unlaunched"]
  /\ rpPc' = "launch"
  /\ UNCHANGED << wgCount, closerPc, closes, rpPanic, errCount, rpResult >>
  /\ UNCHANGED rpOthers

\* one pass of for _, plugin := range plugins: done.Add(1); go func(plugin)
Launch ==
  /\ rpPc = "launch"
  /\ rpPanic = "none"
  /\ Cardinality(Launched) < Len(plugins)
  /\ wgCount' = wgCount + 1
  /\ plPc' = [plPc EXCEPT ![Cardinality(Launched) + 1] = "running"]
  /\ UNCHANGED << plugins, closerPc, closes, rpPanic, errCount, rpResult, rpPc >>
  /\ UNCHANGED rpOthers

\* go func() { done.Wait(); close(res) }(), then the callback reaches the
\* range over res
StartCloser ==
  /\ rpPc = "launch"
  /\ rpPanic = "none"
  /\ Cardinality(Launched) = Len(plugins)
  /\ closerPc' = "waiting"
  /\ rpPc' = "range"
  /\ UNCHANGED << plugins, plPc, wgCount, closes, rpPanic, errCount, rpResult >>
  /\ UNCHANGED rpOthers

\* plugin.init() and plugin.entrypoint(env) of plugin i have returned; its
\* goroutine is at the send
EntrypointReturns(i) ==
  /\ i \in 1..Len(plPc)
  /\ rpPanic = "none"
  /\ plPc[i] = "running"
  /\ plPc' = [plPc EXCEPT ![i] = "sending"]
  /\ UNCHANGED << plugins, wgCount, closerPc, closes, rpPanic, errCount,
                  rpResult, rpPc >>
  /\ UNCHANGED rpOthers

\* res <- err of plugin i: a send on the closed channel panics; on the open
\* channel it meets the receive of the range, whose body runs
Send(i) ==
  /\ i \in 1..Len(plPc)
  /\ rpPanic = "none"
  /\ plPc[i] = "sending"
  /\ IF closes > 0
       THEN /\ rpPanic' = "send on closed channel"
            /\ UNCHANGED << plPc, errCount >>
       ELSE /\ rpPc = "range"
            /\ plPc' = [plPc EXCEPT ![i] = "sent"]
            /\ errCount' = countError(errCount, plugins[i])
            /\ UNCHANGED rpPanic
  /\ UNCHANGED << plugins, wgCount, closerPc, closes, rpResult, rpPc >>
  /\ UNCHANGED rpOthers

\* the deferred done.Done() of the goroutine of plugin i
PluginDone(i) ==
  /\ i \in 1..Len(plPc)
  /\ rpPanic = "none"
  /\ plPc[i] = "sent"
  /\ plPc' = [plPc EXCEPT ![i] = "exited"]
  /\ wgCount' = wgCount - 1
  /\ UNCHANGED << plugins, closerPc, closes, rpPanic, errCount, rpResult, rpPc >>
  /\ UNCHANGED rpOthers

\* done.Wait() returns and close(res) runs
CloseRes ==
  /\ closerPc = "waiting"
  /\ rpPanic = "none"
  /\ WaitReturns(wgCount)
  /\ closes' = closes + 1
  /\ closerPc' = "exited"
  /\ UNCHANGED << plugins, plPc, wgCount, rpPanic, errCount, rpResult, rpPc >>
  /\ UNCHANGED rpOthers

\* the range over the closed channel ends and the callback returns
ReturnPlugins ==
  /\ rpPc = "range"
  /\ rpPanic = "none"
  /\ closes > 0
  /\ rpResult' = pluginsResult(errCount)
  /\ rpPc' = "returned"
  /\ UNCHANGED << plugins, plPc, wgCount, closerPc, closes, rpPanic, errCount >>
  /\ UNCHANGED rpOthers

NextPlugins ==
  \/ CallRunPlugins
  \/ Launch
  \/ StartCloser
  \/ \E i \in 1..MaxPlugins : EntrypointReturns(i)
  \/ \E i \in 1..MaxPlugins : Send(i)
  \/ \E i \in 1..MaxPlugins : PluginDone(i)
  \/ CloseRes
  \/ ReturnPlugins

SpecPlugins == InitPlugins /\ [][NextPlugins]_vars

\* every goroutine that can take a step is scheduled sooner or later
SpecPluginsLive == SpecPlugins /\ WF_vars(NextPlugins)

(***************************************************************************)
(* onSync, the handler of the "synchronize" event, in its two versions:    *)
(* PRPlugin.onSync and plugin.onSync.  GitHub keeps the check runs; every  *)
(* call of its API can fail.                                               *)
(***************************************************************************)
MaxRuns == 2

\* the status of a check run that was created and of one that has its results
Started == "in_progress"

Finished == "completed"

\* the two commits of the event
Before == "before"

After == "after"

CheckRun(id, sha, status, conclusion, summary) ==
  [id |-> id, sha |-> sha, status |-> status, conclusion |-> conclusion,
   summary |-> summary]

\* the check runs of the plugin's name on the commit before, ids left open
RunsBefore ==
  { CheckRun(0, Before, Started, "none", "none"),
    CheckRun(0, Before, Finished, "success", "Success"),
    CheckRun(0, Before, Finished, "failure", "no type prefix") }

SampleRuns ==
  UNION {{[i \in 1..n |-> [f[i] EXCEPT !.id = i]] : f \in [1..n -> RunsBefore]} :
           n \in 0..MaxRuns}

\* processPR / validatePR: conclusion and summary of the check
processPR(found) ==
  IF found = "fail" THEN [conclusion |-> "failure", summary |-> "no type prefix"]
  ELSE [conclusion |-> "success", summary |-> "Success"]

\* the check run after UpdateCheckRun with a conclusion and an output
updatedRun(run, processed) ==
  [run EXCEPT !.status = Finished, !.conclusion = processed.conclusion,
              !.summary = processed.summary]

\* the check runs of the commit
RunsOn(all, sha) == SelectSeq(all, LAMBDA r : r.sha = sha)

InitSync ==
  /\ syOthersIdle
  /\ syImpl = "none"
  /\ runs = << >>
  /\ validation = "none"
  /\ checkRun = NoRun
  /\ syResult = "none"
  /\ syPc = "called"

\* onSync is called on an event
CallOnSync ==
  /\ syPc = "called"
  /\ syImpl' \in {"PRPlugin", "plugin"}
  /\ runs' \in SampleRuns
  /\ validation' \in {"pass", "fail"}
  /\ syPc' = "get"
  /\ UNCHANGED << checkRun, syResult >>
  /\ UNCHANGED syOthers

\* checkRun, err := p.getCheckRun(..., before)
GetCheckRun ==
  /\ syPc = "get"
  /\ \E listed, created \in BOOLEAN :
       IF ~listed
         THEN /\ syResult' = "unable to get check run"
              /\ syPc' = "done"
              /\ UNCHANGED << runs, checkRun >>
       ELSE IF Len(RunsOn(runs, Before)) = 0
         THEN IF created
                THEN /\ runs' = Append(runs, CheckRun(Len(runs) + 1, Before,
                                                      Started, "none", "none"))
                     /\ checkRun' = runs'[Len(runs')]
                     /\ syPc' = "got"
                     /\ UNCHANGED syResult
                ELSE /\ syResult' = "unable to create check run"
                     /\ syPc' = "done"
                     /\ UNCHANGED << runs, checkRun >>
       ELSE IF Len(RunsOn(runs, Before)) = 1
         THEN /\ created
              /\ checkRun' = RunsOn(runs, Before)[1]
              /\ syPc' = "got"
              /\ UNCHANGED << runs, syResult >>
       ELSE /\ created
            /\ syResult' = "multiple instances"
            /\ syPc' = "done"
            /\ UNCHANGED << runs, checkRun >>
  /\ UNCHANGED << syImpl, validation >>
  /\ UNCHANGED syOthers

\* the check run was not finished: processAndSubmit / validateAndSubmit.
\* PRPlugin.onSync returns what processAndSubmit returns; plugin.onSync
\* returns its error, or goes on with the updated check run.
Revalidate ==
  /\ syPc = "got"
  /\ checkRun.status # Finished
  /\ \E updated \in BOOLEAN :
       IF ~updated
         THEN /\ syResult' = "unable to update check run with results"
              /\ syPc' = "done"
              /\ UNCHANGED << runs, checkRun >>
         ELSE /\ runs' = [runs EXCEPT ![checkRun.id] =
                                        updatedRun(@, processPR(validation))]
              /\ checkRun' = IF syImpl = "plugin" THEN runs'[checkRun.id]
                             ELSE checkRun
              /\ IF validation = "fail"
                   THEN syResult' = "failed" /\ syPc' = "done"
                 ELSE IF syImpl = "PRPlugin"
                   THEN syResult' = "nil" /\ syPc' = "done"
                 ELSE syPc' = "dup" /\ UNCHANGED syResult
  /\ UNCHANGED << syImpl, validation >>
  /\ UNCHANGED syOthers

\* checkRun, err = p.duplicateCheckRun(..., after, checkRun), and the return
Duplicate ==
  /\ \/ syPc = "got" /\ checkRun.status = Finished
     \/ syPc = "dup"
  /\ \E duplicated \in BOOLEAN :
       IF ~duplicated
         THEN /\ syResult' = "unable to duplicate check run"
              /\ UNCHANGED << runs, checkRun >>
         ELSE /\ runs' = Append(runs, CheckRun(Len(runs) + 1, After,
                                  checkRun.status, checkRun.conclusion,
                                  checkRun.summary))
              /\ checkRun' = runs'[Len(runs')]
              /\ syResult' = IF checkRun'.conclusion = "none" THEN "panic"
                             ELSE IF checkRun'.conclusion = "failure"
                               THEN "failed"
                             ELSE "nil"
  /\ syPc' = "done"
  /\ UNCHANGED << syImpl, validation >>
  /\ UNCHANGED syOthers

NextSync == CallOnSync \/ GetCheckRun \/ Revalidate \/ Duplicate

SpecSync == InitSync /\ [][NextSync]_vars

(***************************************************************************)
(* run of the release-notes command, from the parsed flags to the call     *)
(* that computes the changes.                                              *)
(***************************************************************************)
Master == << "m", "a", "s", "t", "e", "r" >>

\* the values of -branch: not given, two release branches, no release branch
SampleFlagBranches ==
  { << >>, ReleaseBranchString(ReleaseBranch(0, 2, FALSE)),
    ReleaseBranchString(ReleaseBranch(1, 0, FALSE)), Master }

\* the values of -from: not given, a tag
SampleFromTags == { << >>, << "v", "0", ".", "1", ".", "0" >> }

\* what git.Actual.CurrentBranch answers
SampleCurrentBranches ==
  { [ok |-> FALSE, name |-> << >>],
    [ok |-> TRUE, name |-> ReleaseBranchString(ReleaseBranch(0, 1, FALSE))],
    [ok |-> TRUE, name |-> ReleaseBranchString(ReleaseBranch(2, 0, FALSE))],
    [ok |-> TRUE, name |-> Master] }

\* if *fromTag == "": run asks git for the current branch
defaultsToCurrent(from, name) == from = << >>

InitNotes ==
  /\ rnOthersIdle
  /\ fromTag = << >>
  /\ flagBranch = << >>
  /\ useUpstreams = FALSE
  /\ currentBranch = [ok |-> FALSE, name |-> << >>]
  /\ notesBranchName = << >>
  /\ notesBranch = BranchError
  /\ rnRange = NoRange
  /\ rnResult = "none"
  /\ rnPc = "start"

\* flag.Parse(): the command line sets the flags
ParseFlags ==
  /\ rnPc = "start"
  /\ fromTag' \in SampleFromTags
  /\ flagBranch' \in SampleFlagBranches
  /\ notesBranchName' = flagBranch'
  /\ useUpstreams' \in BOOLEAN
  /\ currentBranch' \in SampleCurrentBranches
  /\ rnPc' = "called"
  /\ UNCHANGED << notesBranch, rnRange, rnResult >>
  /\ UNCHANGED rnOthers

\* the head of run: the default of *branchName
DefaultBranch ==
  /\ rnPc = "called"
  /\ IF defaultsToCurrent(fromTag, notesBranchName)
       THEN IF currentBranch.ok
              THEN /\ notesBranchName' = currentBranch.name
                   /\ rnPc' = "parse"
                   /\ UNCHANGED rnResult
              ELSE /\ rnResult' = "no current branch"
                   /\ rnPc' = "done"
                   /\ UNCHANGED notesBranchName
       ELSE /\ rnPc' = "parse"
            /\ UNCHANGED << notesBranchName, rnResult >>
  /\ UNCHANGED << fromTag, flagBranch, useUpstreams, currentBranch,
                  notesBranch, rnRange >>
  /\ UNCHANGED rnOthers

\* branch, err := compose.ReleaseFromBranch(*branchName), and UseUpstream
ParseBranch ==
  /\ rnPc = "parse"
  /\ \E parsed \in {ReleaseFromBranch(notesBranchName)} :
       IF ~parsed.ok
         THEN /\ rnResult' = "not a valid release branch"
              /\ rnPc' = "done"
              /\ UNCHANGED notesBranch
         ELSE /\ notesBranch' =
                   [parsed EXCEPT !.b.UseUpstream = useUpstreams]
              /\ rnPc' = "changes"
              /\ UNCHANGED rnResult
  /\ UNCHANGED << fromTag, flagBranch, useUpstreams, currentBranch,
                  notesBranchName, rnRange >>
  /\ UNCHANGED rnOthers

\* the changes: compose.Changes on the branch, or compose.ChangesSince on
\* the branch since -from; either may fail
ComputeChanges ==
  /\ rnPc = "changes"
  /\ rnRange' = IF fromTag = << >>
                  THEN [fn |-> "Changes", branch |-> notesBranch.b,
                        since |-> << >>]
                  ELSE [fn |-> "ChangesSince", branch |-> notesBranch.b,
                        since |-> fromTag]
  /\ rnResult' \in {"nil", "no changes"}
  /\ rnPc' = "done"
  /\ UNCHANGED << fromTag, flagBranch, useUpstreams, currentBranch,
                  notesBranchName, notesBranch >>
  /\ UNCHANGED rnOthers

NextNotes == ParseFlags \/ DefaultBranch \/ ParseBranch \/ ComputeChanges

SpecNotes == InitNotes /\ [][NextNotes]_vars

(***************************************************************************)
(* Properties of ExpectedNextVersion (checked under SpecNext).             *)
(***************************************************************************)
Returned == envPc = "returned"

\* major, minor and patch of a version
Triple(v) == << v.Major, v.Minor, v.Patch >>

CurrentIsFinalTag == IsTag(currentVersion) /\ currentVersion.tag.Pre = << >>

CurrentIsPreTag == IsTag(currentVersion) /\ currentVersion.tag.Pre # << >>

\* the bump rule as the specification words it: Breaking bumps the major
\* (the minor for a 0.Y tag under Pre10), Features the minor, anything else
\* the patch
BumpFinalTriple(cur, log, pre10) ==
  IF log.Breaking # << >>
    THEN IF cur.Major = 0 /\ pre10 THEN << 0, cur.Minor + 1, 0 >>
         ELSE << cur.Major + 1, 0, 0 >>
  ELSE IF log.Features # << >> THEN << cur.Major, cur.Minor + 1, 0 >>
  ELSE << cur.Major, cur.Minor, cur.Patch + 1 >>

\* the pre-release string of a requested pre-release kind
KindStr(kind) ==
  IF kind = ReleaseAlpha THEN Alpha ELSE IF kind = ReleaseBeta THEN Beta ELSE Rc

\* the place of a pre-release string in the sequence alpha < beta < rc
KindRank(str) == IF str = Alpha THEN 1 ELSE IF str = Beta THEN 2 ELSE 3

PreKinds == {ReleaseAlpha, ReleaseBeta, ReleaseCandidate}

\* C1: a Final release from a final tag returns bump_final(current), without
\* error and without a pre-release: Breaking gives (major+1).0.0, or
\* 0.(minor+1).0 for a 0.Y tag under Pre10; otherwise Features give
\* major.(minor+1).0; otherwise the result is major.minor.(patch+1).
C1_FinalFromFinalBumps ==
  (Returned /\ CurrentIsFinalTag /\ info.Kind = ReleaseFinal) =>
    /\ nextVersion.err = "nil"
    /\ nextVersion.tag.Pre = << >>
    /\ Triple(nextVersion.tag)
         = BumpFinalTriple(currentVersion.tag, changeLog, info.Pre10)

C1_Witness ==
  /\ Returned /\ CurrentIsFinalTag /\ info.Kind = ReleaseFinal
  /\ Triple(currentVersion.tag) = << 1, 1, 1 >>
  /\ changeLog.Breaking # << >> /\ changeLog.Bugs # << >>
  /\ Triple(nextVersion.tag) = << 2, 0, 0 >>

C3_PreToFinalKeepsVersion ==
  (Returned /\ CurrentIsPreTag /\ info.Kind = ReleaseFinal) =>
    /\ nextVersion.err = "nil"
    /\ nextVersion.tag.Pre = << >>
    /\ Triple(nextVersion.tag) = Triple(currentVersion.tag)

C3_Witness ==
  /\ Returned /\ info.Kind = ReleaseFinal /\ IsTag(currentVersion)
  /\ currentVersion.tag.Pre = << PRStr(Rc), PRNum(1) >>
  /\ Triple(currentVersion.tag) = << 1, 0, 0 >>
  /\ changeLog.Breaking # << >>
  /\ nextVersion = [tag |-> Version(1, 0, 0, << >>, << >>), err |-> "nil"]

\* C4: a pre-release request on a final tag returns, without error,
\* bump_final(current) with the requested kind attached at ordinal 0.
C4_PreFromFinalBumpsThenAttaches ==
  (Returned /\ CurrentIsFinalTag /\ info.Kind \in PreKinds) =>
    /\ nextVersion.err = "nil"
    /\ Triple(nextVersion.tag)
         = BumpFinalTriple(currentVersion.tag, changeLog, info.Pre10)
    /\ nextVersion.tag.Pre = << PRStr(KindStr(info.Kind)), PRNum(0) >>

C4_Witness ==
  /\ Returned /\ CurrentIsFinalTag /\ info.Kind = ReleaseBeta
  /\ Triple(currentVersion.tag) = << 1, 1, 1 >>
  /\ changeLog.Breaking = << >> /\ changeLog.Features = << >>
  /\ changeLog.Bugs # << >>
  /\ nextVersion
       = [tag |-> Version(1, 1, 2, << PRStr(Beta), PRNum(0) >>, << >>),
          err |-> "nil"]

\* C5: a request for pre-release kind k2 on a tag of another kind k1 (both
\* of alpha, beta, rc) attaches k2 at ordinal 0 to the unbumped version; it
\* succeeds when k2 comes after k1 and fails with the ordering error when k2
\* comes before; a version that is not newer is never returned without error.
C5_KindSwitch ==
  (/\ Returned /\ CurrentIsPreTag /\ info.Kind \in PreKinds
   /\ currentVersion.tag.Pre[1].VersionStr \in {Alpha, Beta, Rc}
   /\ currentVersion.tag.Pre[1] # PRStr(KindStr(info.Kind))) =>
    /\ Triple(nextVersion.tag) = Triple(currentVersion.tag)
    /\ nextVersion.tag.Pre = << PRStr(KindStr(info.Kind)), PRNum(0) >>
    /\ KindRank(KindStr(info.Kind)) > KindRank(currentVersion.tag.Pre[1].VersionStr)
         => nextVersion.err = "nil"
    /\ KindRank(KindStr(info.Kind)) < KindRank(currentVersion.tag.Pre[1].VersionStr)
         => nextVersion.err = "older"
    /\ nextVersion.err = "nil"
         => VersionCompare(nextVersion.tag, currentVersion.tag) = 1

C5_Witness ==
  /\ Returned /\ IsTag(currentVersion) /\ info.Kind = ReleaseAlpha
  /\ currentVersion.tag.Pre = << PRStr(Beta), PRNum(0) >>
  /\ nextVersion.err = "older"
  /\ nextVersion.tag.Pre = << PRStr(Alpha), PRNum(0) >>

\* C6: under Pre10, from a current value that is no tag or a tag of major 0,
\* every version returned without error has major 0; without Pre10 a Final
\* release from a final 0.Y tag with Breaking entries is 1.0.0.
C6_Pre10StaysBelowOne ==
  /\ (/\ Returned /\ info.Pre10 /\ nextVersion.err = "nil"
      /\ (~IsTag(currentVersion) \/ currentVersion.tag.Major = 0))
       => nextVersion.tag.Major = 0
  /\ (/\ Returned /\ ~info.Pre10 /\ info.Kind = ReleaseFinal /\ CurrentIsFinalTag
      /\ currentVersion.tag.Major = 0 /\ changeLog.Breaking # << >>)
       => Triple(nextVersion.tag) = << 1, 0, 0 >>

C6_Witness ==
  /\ Returned /\ info.Pre10 /\ info.Kind = ReleaseFinal /\ CurrentIsFinalTag
  /\ Triple(currentVersion.tag) = << 0, 1, 1 >>
  /\ changeLog.Breaking # << >>
  /\ nextVersion = [tag |-> Version(0, 2, 0, << >>, << >>), err |-> "nil"]

QueryIndices(op) == {i \in 1..Len(gitLog) : gitLog[i].op = op}

\* the position of the first and of the last ClosestTag query
FirstClosest ==
  CHOOSE i \in QueryIndices("ClosestTag") :
    \A j \in QueryIndices("ClosestTag") : i <= j

LastClosest ==
  CHOOSE i \in QueryIndices("ClosestTag") :
    \A j \in QueryIndices("ClosestTag") : j <= i

\* the ref of a release branch without and with the upstream suffix
PlainRef(b) == ReleaseBranchString([b EXCEPT !.UseUpstream = FALSE])

UpstreamRef(b) == PlainRef(b) \o UpstreamSuffix

\* the closest tag from the tip of branch is a release tag
FoundTagHere == latestHere.err = "nil" /\ IsTag(latestHere.val)

\* a tag of the line immediately before the line of branch b
TagPrecedes(b, tag) ==
  \/ b.Major = 0 /\ tag.Major = 0 /\ tag.Minor + 1 = b.Minor
  \/ b.Major = 1 /\ tag.Major = 0
  \/ b.Major > 1 /\ tag.Major + 1 = b.Major

\* the line a tag is of, as a release branch
LineOf(tag) ==
  IF tag.Major = 0 THEN ReleaseBranch(0, tag.Minor, FALSE)
  ELSE ReleaseBranch(tag.Major, 0, FALSE)

\* a tag is of the line of branch b
BelongsTo(b, tag) == tag.Major = b.Major /\ (b.Major = 0 => tag.Minor = b.Minor)

\* ret is what LatestRelease with verify=true gives on line prev when
\* ClosestTag answered q there and parsed is q's tag parsed
VerifiedOn(prev, q, parsed, ret) ==
  /\ q.ref \in {PlainRef(prev), UpstreamRef(prev)}
  /\ (q.ok /\ parsed.res = "ok") =>
       /\ ret.val = ReleaseTagOf(parsed.tag)
       /\ ret.err = "nil" <=> BelongsTo(prev, parsed.tag)
  /\ (q.ok /\ parsed.res = "err") => ret.err # "nil"
  /\ ~q.ok => (ret.err = "nil" => ret.val.type = "FirstCommit")

\* C7: when the closest tag from the branch tip is of the line immediately
\* before (branch 0.Y with a 0.(Y-1) tag, branch 1 with a 0.* tag, branch X>1
\* with a tag of major X-1), CurrentVersion returns what LatestRelease with
\* verify=true gives on that line's branch; in every other case it returns
\* the found tag, without error iff the tag belongs to the current branch.
C7_BranchAliasing ==
  (cvPc = "done" /\ FoundTagHere) =>
    IF TagPrecedes(branch, latestHere.val.tag)
      THEN /\ Cardinality(QueryIndices("ClosestTag")) = 2
           /\ VerifiedOn(LineOf(latestHere.val.tag), gitLog[LastClosest],
                         parseReleaseTag(gitLog[LastClosest].out), cvResult)
      ELSE /\ Cardinality(QueryIndices("ClosestTag")) = 1
           /\ cvResult.val = latestHere.val
           /\ cvResult.err = "nil" <=> BelongsTo(branch, latestHere.val.tag)

C7_Witness ==
  /\ cvPc = "done"
  /\ branch.Major = 0 /\ branch.Minor = 2
  /\ latestHere.val = ReleaseTagOf(Version(0, 1, 0, << >>, << >>))
  /\ gitLog[LastClosest].ref = PlainRef(ReleaseBranch(0, 1, FALSE))
  /\ cvResult = [val |-> ReleaseTagOf(Version(0, 1, 1, << >>, << >>)),
                 err |-> "nil"]

\* C8: in each of the three aliasing cases the previous line's branch is
\* queried with the upstream setting the caller passed in: its closest-tag
\* query is made on the upstream ref iff the caller set use_upstream and the
\* previous branch has an upstream, whatever became of the current branch's
\* flag.
C8_PrevBranchInheritsOriginalUpstream ==
  (/\ cvPc \in {"done", "panic"} /\ FoundTagHere
   /\ TagPrecedes(branch, latestHere.val.tag)) =>
    gitLog[LastClosest].ref
      = IF branchArg.UseUpstream /\ upstreamExists.prev
          THEN UpstreamRef(LineOf(latestHere.val.tag))
          ELSE PlainRef(LineOf(latestHere.val.tag))

\* C9: CurrentVersion changes the caller's branch only by clearing
\* use_upstream: major and minor never change; use_upstream is true afterwards
\* iff it was true before and the has-upstream check on the branch succeeded;
\* the closest-tag query is made on the plain ref when the flag was cleared
\* and on the upstream ref when it was kept; no has-upstream query is made
\* when the flag was false on entry.
C9_OnlyClearsUseUpstream ==
  /\ branch.Major = branchArg.Major /\ branch.Minor = branchArg.Minor
  /\ branch.UseUpstream => branchArg.UseUpstream
  /\ (cvPc # "enter" /\ branchArg.UseUpstream) =>
       /\ gitLog[1].op = "HasUpstream"
       /\ gitLog[1].ref = UpstreamRef(branchArg)
       /\ branch.UseUpstream = gitLog[1].ok
  /\ ~branchArg.UseUpstream => QueryIndices("HasUpstream") = {}
  /\ QueryIndices("ClosestTag") # {} =>
       gitLog[FirstClosest].ref
         = IF branch.UseUpstream THEN UpstreamRef(branchArg)
           ELSE PlainRef(branchArg)

C9_Witness ==
  /\ cvPc = "done"
  /\ branchArg.UseUpstream /\ ~branch.UseUpstream
  /\ gitLog[1].op = "HasUpstream" /\ ~gitLog[1].ok
  /\ gitLog[FirstClosest].ref = PlainRef(branchArg)
  /\ cvResult.err = "nil" /\ IsTag(cvResult.val)

\* ret is what LatestRelease returned on branch b, whose ClosestTag query is
\* at position i of gitLog
FallsBack(b, i, ret) ==
  IF gitLog[i].ok
    THEN /\ ret.val.type # "FirstCommit"
         /\ i < Len(gitLog) => gitLog[i + 1].op # "FirstCommit"
    ELSE /\ i < Len(gitLog)
         /\ gitLog[i + 1].op = "FirstCommit"
         /\ gitLog[i + 1].ref = gitLog[i].ref
         /\ IF gitLog[i + 1].ok
              THEN /\ ret.err = "nil"
                   /\ ret.val = FirstCommitOf(gitLog[i + 1].out, b)
              ELSE ret.err # "nil"

\* C10: a failed closest-tag query makes LatestRelease ask for the branch's
\* root commit and return a FirstCommit holding the branch and that commit,
\* without error; it fails only if the root-commit query fails as well; and
\* after a closest-tag query that succeeded it never returns a FirstCommit.
C10_FirstCommitFallback ==
  /\ cvPc \in {"switch", "latestPrev", "done"} =>
       FallsBack(branch, FirstClosest, latestHere)
  /\ (cvPc = "done" /\ Cardinality(QueryIndices("ClosestTag")) = 2) =>
       FallsBack(prevRel, LastClosest, cvResult)

C10_Witness ==
  /\ cvPc = "done"
  /\ FoundTagHere
  /\ Cardinality(QueryIndices("ClosestTag")) = 2
  /\ ~gitLog[LastClosest].ok
  /\ cvResult = [val |-> FirstCommitOf(SampleCommit, prevRel), err |-> "nil"]

\* the ClosestTag query at position i of gitLog answered with a tag
AnsweredAt(i) == i \in QueryIndices("ClosestTag") /\ gitLog[i].ok

\* the first LatestRelease call (verify=false, on branch) has returned
HereReturned == cvPc \in {"switch", "latestPrev", "done"}

\* the second LatestRelease call (verify=true, on prevRel) has returned
PrevReturned == cvPc = "done" /\ Cardinality(QueryIndices("ClosestTag")) = 2

\* ret returns the tag parsed, which is a release tag, and no error
AcceptsUnverified(parsed, ret) ==
  parsed.res = "ok" => ret = [val |-> ReleaseTagOf(parsed.tag), err |-> "nil",
                              panicked |-> FALSE]

\* ret returns the tag parsed, with an error iff the tag is not of branch b:
\* for an X branch its major is not X, for a 0.Y branch its major is not 0
\* or its minor is not Y
RejectsVerified(b, parsed, ret) ==
  parsed.res = "ok" =>
    /\ ret.val = ReleaseTagOf(parsed.tag)
    /\ ret.err # "nil" <=>
         IF b.Major > 0 THEN parsed.tag.Major # b.Major
         ELSE parsed.tag.Major # 0 \/ parsed.tag.Minor # b.Minor

\* C11: LatestRelease checks that the found tag belongs to the branch exactly
\* when verify is set: with verify=false every valid release tag is returned
\* without error whatever the branch; with verify=true an error is returned
\* iff the tag's major differs from an X branch's, or the tag is not 0.Y for
\* a 0.Y branch.
C11_VerifyOnlyWhenAsked ==
  /\ (HereReturned /\ AnsweredAt(FirstClosest)) =>
       AcceptsUnverified(parseReleaseTag(gitLog[FirstClosest].out), latestHere)
  /\ (PrevReturned /\ AnsweredAt(LastClosest)) =>
       RejectsVerified(prevRel, parseReleaseTag(gitLog[LastClosest].out), cvResult)

C11_Witness ==
  /\ PrevReturned
  /\ branch.Major = 1
  /\ latestHere.val = ReleaseTagOf(Version(0, 1, 1, << >>, << >>))
  /\ latestHere.err = "nil"
  /\ prevRel.Major = 0 /\ prevRel.Minor = 1
  /\ cvResult = [val |-> ReleaseTagOf(Version(0, 2, 0, << >>, << >>)),
                 err |-> "wrongBranch"]

\* C12: every tag the closest-tag query answers with is parsed into a release
\* tag or into a returned error: LatestRelease never crashes on it, and a tag
\* without a leading v (the empty one included), with a remainder that is no
\* semantic version, or with invalid pre-release info makes it return an
\* error.
C12_MalformedTagIsAnError ==
  /\ cvPc # "panic"
  /\ (HereReturned /\ AnsweredAt(FirstClosest)
      /\ (gitLog[FirstClosest].out = << >> \/ gitLog[FirstClosest].out[1] # "v"))
       => latestHere.err = "notAVersion"
  /\ (HereReturned /\ AnsweredAt(FirstClosest)
      /\ gitLog[FirstClosest].out # << >>
      /\ ~SemverParse(Tail(gitLog[FirstClosest].out)).ok)
       => latestHere.err = "notAVersion"
  /\ (HereReturned /\ AnsweredAt(FirstClosest) /\ latestHere.err = "nil")
       => latestHere.val.tag.Pre = << >> \/ Len(latestHere.val.tag.Pre) = 2

\* C13: a tag is accepted as a release tag iff its pre-release info is absent
\* or is exactly a kind of alpha, beta, rc followed by a numeric ordinal.
C13_ValidateRecognizedKinds ==
  (HereReturned /\ AnsweredAt(FirstClosest) /\ gitLog[FirstClosest].out # << >>
   /\ gitLog[FirstClosest].out[1] = "v"
   /\ SemverParse(Tail(gitLog[FirstClosest].out)).ok) =>
     (latestHere.err = "nil" <=>
        \E v \in {SemverParse(Tail(gitLog[FirstClosest].out)).v} :
           \/ v.Pre = << >>
           \/ /\ Len(v.Pre) = 2
              /\ ~v.Pre[1].IsNum /\ v.Pre[1].VersionStr \in {Alpha, Beta, Rc}
              /\ v.Pre[2].IsNum)

(***************************************************************************)
(* Properties of PRTypeFromTitle (checked under SpecTitle).                *)
(***************************************************************************)
TitleReturned == titlePc = "returned"

\* string t starts with string m
StartsWith(t, m) == Len(t) >= Len(m) /\ \A i \in 1..Len(m) : t[i] = m[i]

\* string t without its first n code points
Without(t, n) == [i \in 1..(Len(t) - n) |-> t[i + n]]

\* the categories other than Release
OtherCategories ==
  {UncategorizedPR, BreakingPR, FeaturePR, BugfixPR, DocsPR, InfraPR}

\* the markers of the documentation, each with the categories it stands for
\* (Release is the category that is none of the others)
Markers ==
  { [marker |-> emojiBreaking, category |-> {BreakingPR}],
    [marker |-> aliasBreaking, category |-> {BreakingPR}],
    [marker |-> emojiFeature, category |-> {FeaturePR}],
    [marker |-> aliasFeature, category |-> {FeaturePR}],
    [marker |-> emojiBugfix, category |-> {BugfixPR}],
    [marker |-> aliasBugfix, category |-> {BugfixPR}],
    [marker |-> emojiDocs, category |-> {DocsPR}],
    [marker |-> aliasDocs, category |-> {DocsPR}],
    [marker |-> emojiInfra, category |-> {InfraPR}],
    [marker |-> aliasInfra, category |-> {InfraPR}],
    [marker |-> emojiInfraLegacy, category |-> {InfraPR}],
    [marker |-> aliasInfraLegacy, category |-> {InfraPR}],
    [marker |-> rocket, category |-> Nat \ OtherCategories],
    [marker |-> aliasRocket, category |-> Nat \ OtherCategories] }

\* the result is (category(M), trim(T)) for the title trimmed = M + T
ClassifiedAs(m, trimmed) ==
  /\ classified.type \in m.category
  /\ classified.title = TrimSpace(Without(trimmed, Len(m.marker)))

\* C14: for every recognized marker M and every text T, the title M + T, with
\* or without white space around it, is classified (category(M), trim(T)),
\* also when T begins with another marker form or other special characters.
C14_MarkerThenText ==
  TitleReturned =>
    \A m \in Markers :
      StartsWith(TrimSpace(title), m.marker) => ClassifiedAs(m, TrimSpace(title))

\* C15: markers are looked for only at the start of the trimmed title: when
\* no recognized marker is a prefix of it the result is Uncategorized with
\* the trimmed title unchanged, also when a marker occurs later in it; the
\* empty and the all-blank title give Uncategorized with the empty text.
C15_PrefixOnly ==
  /\ (TitleReturned /\ \A m \in Markers : ~StartsWith(TrimSpace(title), m.marker))
       => classified = [type |-> UncategorizedPR, title |-> TrimSpace(title)]
  /\ (TitleReturned /\ \A i \in 1..Len(title) : title[i] \in {" ", "\t"})
       => classified = [type |-> UncategorizedPR, title |-> << >>]

C15_Witness ==
  /\ TitleReturned
  /\ title = << " ", "x" >> \o aliasFeature
  /\ classified = [type |-> UncategorizedPR, title |-> << "x" >> \o aliasFeature]

\* C16: a title that starts with the rocket or with :rocket: is classified as
\* Release, a category of its own and not Uncategorized, with the marker
\* stripped.
C16_RocketIsRelease ==
  (TitleReturned
   /\ (StartsWith(TrimSpace(title), rocket) \/ StartsWith(TrimSpace(title), aliasRocket)))
    => /\ classified.type \notin OtherCategories
       /\ classified.title
            = TrimSpace(Without(TrimSpace(title),
                                IF StartsWith(TrimSpace(title), rocket)
                                  THEN Len(rocket) ELSE Len(aliasRocket)))

(***************************************************************************)
(* Properties of ReleaseFromBranch and ReleaseBranch.String (checked under *)
(* SpecBranch).                                                            *)
(***************************************************************************)
BranchParsed == rfbPc \in {"parsed", "printed"}

\* a non-empty string of decimal digits
IsNumeral(s) ==
  s # << >> /\ \A i \in 1..Len(s) : s[i] \in {"0", "1", "2", "3", "4", "5", "6", "7", "8", "9"}

\* a numeral of value at least 1
AtLeastOne(s) == IsNumeral(s) /\ \E i \in 1..Len(s) : s[i] # "0"

ZeroDotPrefix == ReleasePrefix \o << "0", "." >>

\* the name is release-0.Y with Y >= 1, and Y is the numeral
IsZeroDotName(name) ==
  StartsWith(name, ZeroDotPrefix) /\ AtLeastOne(Without(name, Len(ZeroDotPrefix)))

\* the name is release-X with X >= 1, and X is the numeral
IsMajorName(name) ==
  StartsWith(name, ReleasePrefix) /\ AtLeastOne(Without(name, Len(ReleasePrefix)))

\* the branch an accepted name gives
BranchOfName(name) ==
  IF IsZeroDotName(name)
    THEN ReleaseBranch(0, DecimalValue(Without(name, Len(ZeroDotPrefix))), FALSE)
    ELSE ReleaseBranch(DecimalValue(Without(name, Len(ReleasePrefix))), 0, FALSE)

\* every accepted result is of an X line or of a 0.Y line, use_upstream false
WellShaped(b) ==
  /\ (b.Major = 0 /\ b.Minor > 0) \/ (b.Major > 0 /\ b.Minor = 0)
  /\ ~b.UseUpstream

\* C17 as stated: ReleaseFromBranch accepts exactly release-X with X >= 1,
\* giving major X and minor 0, and release-0.Y with Y >= 1, giving major 0
\* and minor Y; everything else is rejected; every accepted result is well
\* shaped.
C17_AcceptsExactlyTheTwoForms ==
  rfbPc = "parsed" =>
    /\ parsedBranch.ok <=> (IsMajorName(branchName) \/ IsZeroDotName(branchName))
    /\ parsedBranch.ok =>
         /\ parsedBranch.b = BranchOfName(branchName)
         /\ WellShaped(parsedBranch.b)

\* the number of a name of one of the two forms
NumeralOfName(name) ==
  IF IsZeroDotName(name) THEN Without(name, Len(ZeroDotPrefix))
  ELSE Without(name, Len(ReleasePrefix))

\* C17 amended: ReleaseFromBranch accepts exactly release-X and release-0.Y
\* with a number from 1 to 2^64 - 1, giving major X and minor 0, or major 0
\* and minor Y; everything else, a larger number included, is rejected;
\* every accepted result is well shaped.
C17_AcceptsTheTwoFormsWithin64Bits ==
  rfbPc = "parsed" =>
    /\ parsedBranch.ok <=>
         /\ IsMajorName(branchName) \/ IsZeroDotName(branchName)
         /\ ~ExceedsUint64(StripZeroes(NumeralOfName(branchName)))
    /\ parsedBranch.ok =>
         /\ parsedBranch.b = BranchOfName(branchName)
         /\ WellShaped(parsedBranch.b)

C17_Witness ==
  /\ rfbPc = "parsed"
  /\ branchName = ReleasePrefix \o << "0", ".", "3" >>
  /\ parsedBranch = [ok |-> TRUE, b |-> ReleaseBranch(0, 3, FALSE)]

\* C18: round trip: String of the branch parsed from an accepted name is the
\* name, followed by @{u} when use_upstream is set.
C18_RoundTrip ==
  rfbPc = "printed" =>
    rendered = branchName
                 \o (IF parsedBranch.b.UseUpstream THEN UpstreamSuffix ELSE << >>)

(***************************************************************************)
(* More properties of CurrentVersion (checked under SpecCurrent).          *)
(***************************************************************************)
\* C24: when the closest tag from the tip of the branch is a valid release
\* tag, CurrentVersion returns a release tag or an error, never the first
\* commit of a branch, also when the closest-tag query on the previous
\* line's branch fails.
C24_FoundReleaseIsNotLost ==
  (cvPc = "done" /\ FoundTagHere) =>
    (cvResult.err # "nil" \/ IsTag(cvResult.val))

\* C25: every ReleaseBranch CurrentVersion builds and queries is a 0.Y line
\* with Y > 0 or an X line with X > 0, and branch.Minor - 1 does not wrap.
C25_BuiltBranchesAreLines ==
  (cvPc = "latestPrev") =>
    /\ (prevRel.Major = 0 /\ prevRel.Minor > 0)
         \/ (prevRel.Major > 0 /\ prevRel.Minor = 0)
    /\ branch.Major = 0 => Uint64Minus1(branch.Minor) = branch.Minor - 1

(***************************************************************************)
(* Properties of ChangesSince (checked under SpecChanges and               *)
(* SpecChangesLive).                                                       *)
(***************************************************************************)
ChangesReturned == csPc = "done"

\* the log is made of GitHub merge blocks and manual merge blocks only
WellFormedLog ==
  /\ commitsRaw.ok
  /\ \A i \in 1..Len(logChunks) : logChunks[i].kind \in {"github", "manual"}

\* the marker of the documentation a title starts with, if any
MarkersOf(trimmed) == {m \in Markers : StartsWith(trimmed, m.marker)}

\* the categories the documentation gives a title
DocumentedCategory(prTitle) ==
  IF MarkersOf(TrimSpace(prTitle)) = {} THEN {UncategorizedPR}
  ELSE UNION {m.category : m \in MarkersOf(TrimSpace(prTitle))}

\* the title without its marker and the white space around it
DocumentedText(prTitle) ==
  IF MarkersOf(TrimSpace(prTitle)) = {} THEN TrimSpace(prTitle)
  ELSE LET m == CHOOSE m \in MarkersOf(TrimSpace(prTitle)) : TRUE
       IN TrimSpace(Without(TrimSpace(prTitle), Len(m.marker)))

\* the entries of the GitHub blocks of category k, in the order of the log
RECURSIVE EntriesOf(_, _)
EntriesOf(chunks, k) ==
  IF chunks = << >> THEN << >>
  ELSE (IF Head(chunks).kind = "github" /\ k \in DocumentedCategory(Head(chunks).title)
          THEN << LogEntry(Head(chunks).pr, DocumentedText(Head(chunks).title)) >>
          ELSE << >>)
       \o EntriesOf(Tail(chunks), k)

\* the number of GitHub blocks
RECURSIVE GitHubBlocks(_)
GitHubBlocks(chunks) ==
  IF chunks = << >> THEN 0
  ELSE (IF Head(chunks).kind = "github" THEN 1 ELSE 0) + GitHubBlocks(Tail(chunks))

\* the number of entries of a ChangeLog
EntryCount(l) ==
  Len(l.Breaking) + Len(l.Features) + Len(l.Bugs) + Len(l.Docs) + Len(l.Infra)
  + Len(l.Uncategorized)

\* C19: over a log of well-formed GitHub merge blocks and manual merge blocks
\* ChangesSince gives exactly one entry per GitHub block and none for the
\* manual ones; each entry has the block's PR number and marker-stripped
\* title and lies in the one bucket its title classifies to, and every bucket
\* keeps the order of the log.
C19_OneEntryPerGitHubBlock ==
  (ChangesReturned /\ WellFormedLog) =>
    /\ csResult.err = "nil"
    /\ EntryCount(csResult.log) = GitHubBlocks(logChunks)
    /\ csResult.log.Breaking = EntriesOf(logChunks, BreakingPR)
    /\ csResult.log.Features = EntriesOf(logChunks, FeaturePR)
    /\ csResult.log.Bugs = EntriesOf(logChunks, BugfixPR)
    /\ csResult.log.Docs = EntriesOf(logChunks, DocsPR)
    /\ csResult.log.Infra = EntriesOf(logChunks, InfraPR)
    /\ csResult.log.Uncategorized = EntriesOf(logChunks, UncategorizedPR)

\* the line scans as the format, all verbs filled
ScansAs(l, format) == expectScanf(LineReader(<< l >>, << >>), format).ok

\* the number of GitHub merge blocks among the lines: a commit line, a merge
\* line, a blank line and a title line, whatever comes before
RECURSIVE WellFormedBlocks(_)
WellFormedBlocks(ls) ==
  IF Len(ls) < 4 THEN 0
  ELSE IF /\ ScansAs(ls[1], FormatCommit)
          /\ ScansAs(ls[2], FormatMerge)
          /\ ls[3] = << >>
    THEN 1 + WellFormedBlocks(SubSeq(ls, 5, Len(ls)))
    ELSE WellFormedBlocks(Tail(ls))

\* C26: a commit that is skipped never takes a following GitHub merge block
\* with it: whatever the other commits of the log look like, also a commit
\* line alone or a merge line without a blank line after it, the number of
\* entries is the number of GitHub merge blocks of the log.
C26_SkippingLosesNoBlock ==
  (ChangesReturned /\ commitsRaw.ok) =>
    EntryCount(csResult.log) = WellFormedBlocks(Split(commitsRaw.text, "\n"))

\* the query of the merge commits answered with the empty text
EmptyLog == commitsRaw.ok /\ logChunks = << >>

\* C20: after a successful query of the merge commits the parse of the text
\* never fails and always ends: ChangesSince returns, with a nil error when
\* the query succeeded and with an error only when the query failed; every
\* pass of the loop takes at least one line; the empty log gives the empty
\* ChangeLog.
C20_ParseAlwaysEndsWithoutError ==
  /\ <>ChangesReturned
  /\ [](ChangesReturned => (csResult.err = "nil" <=> commitsRaw.ok))
  /\ []((ChangesReturned /\ EmptyLog) => csResult.log = EmptyChangeLog)
  /\ [][ScanPass => Len(lines'.lines) < Len(lines.lines)]_vars

\* a text that ends after the blank line of a block was parsed to the end
C20_Witness ==
  /\ ChangesReturned
  /\ commitsRaw.ok
  /\ Len(logChunks) = 2
  /\ logChunks[1].kind = "github"
  /\ logChunks[2].lines = << CommitLine, MergeLine(<< "6" >>), << >> >>
  /\ csResult.err = "nil"
  /\ EntryCount(csResult.log) = 1

(***************************************************************************)
(* Properties of ClosestFinal (checked under SpecFinal and SpecFinalLive). *)
(***************************************************************************)
FinalReturned == cfPc = "done"

\* where a tag name lies in the history (0: nowhere)
PlaceOf(name) ==
  IF \E i \in 1..Len(cfHistory) : cfHistory[i] = name
    THEN CHOOSE i \in 1..Len(cfHistory) : cfHistory[i] = name
    ELSE 0

\* C21: a tag ClosestFinal returns without error is a valid release tag of
\* the history, has no prerelease part and is strictly less than current
\* with its prerelease cleared.
C21_ReturnsEarlierFinal ==
  (FinalReturned /\ cfResult.res = "ok") =>
    /\ PlaceOf(ReleaseTagCommittish(cfResult.tag)) > 0
    /\ parseReleaseTag(ReleaseTagCommittish(cfResult.tag)).res = "ok"
    /\ cfResult.tag.Pre = << >>
    /\ VersionCompare(cfResult.tag, CurrentFinal(cfCurrent)) = -1

\* C27: over a history where every query answers with an earlier tag or
\* fails, ClosestFinal returns, with a final tag or with the error of the
\* query; every query moves the search point strictly backwards.
C27_ClosestFinalTerminates ==
  /\ <>FinalReturned
  /\ [](FinalReturned => cfResult.res \in {"ok", "query failed"})
  /\ [][(QueryClosestTag /\ cfPc' = "loop") =>
          (0 < PlaceOf(toCheck') /\ PlaceOf(toCheck') < PlaceOf(toCheck))]_vars

\* the search passed a prerelease tag and a tag that is no release tag and
\* returned the final tag before them
C27_Witness ==
  /\ FinalReturned
  /\ cfResult.res = "ok"
  /\ Len(cfHistory) = 3
  /\ parseReleaseTag(cfHistory[2]).res = "err"
  /\ parseReleaseTag(cfHistory[3]).res = "ok"
  /\ parseReleaseTag(cfHistory[3]).tag.Pre # << >>
  /\ cfCurrent = parseReleaseTag(cfHistory[3]).tag
  /\ cfResult.tag = parseReleaseTag(cfHistory[1]).tag

(***************************************************************************)
(* Properties of RunPlugins (checked under SpecPlugins and                 *)
(* SpecPluginsLive).                                                       *)
(***************************************************************************)
PluginsReturned == rpPc = "returned"

\* the plugins whose entrypoint returns an error
Failing == {i \in 1..Len(plugins) : plugins[i] = "failed"}

\* C22: the callback returns only after the entrypoint of every plugin has
\* returned, failed or not; it returns an error exactly when at least one
\* entrypoint returned one, and the count of the error is the number of the
\* failing plugins; while the plugins are launched none waits for another.
C22_CollectsEveryPlugin ==
  /\ PluginsReturned =>
       /\ \A i \in 1..Len(plugins) : plPc[i] = "exited"
       /\ (rpResult.err # "nil") <=> (Failing # {})
       /\ rpResult.count = Cardinality(Failing)
  /\ \A i \in 1..Len(plPc) :
       (plPc[i] = "running" /\ rpPanic = "none") => ENABLED EntrypointReturns(i)
  /\ (rpPc = "launch" /\ rpPanic = "none") => ENABLED (Launch \/ StartCloser)

\* two of three plugins failed, and the callback has returned
C22_Witness ==
  /\ PluginsReturned
  /\ plugins = << "failed", "nil", "failed" >>
  /\ rpResult = [err |-> "plugins had errors", count |-> 2]

\* the goroutine of plugin i is at its send
Sending(i) == i \in 1..Len(plPc) /\ plPc[i] = "sending"

\* the send of plugin i was received
Received(i) == i \in 1..Len(plPc) /\ plPc[i] \in {"sent", "exited"}

\* C28: for every number of plugins and every interleaving the callback
\* returns; every send on res is received; res is closed once, after every
\* send, so that no goroutine sends on the closed channel.
C28_FanOutCollectEnds ==
  /\ <>PluginsReturned
  /\ \A i \in 1..MaxPlugins : Sending(i) ~> Received(i)
  /\ [](rpPanic = "none")
  /\ [](closes <= 1)
  /\ [](closes > 0 => \A i \in 1..Len(plugins) : plPc[i] = "exited")
  /\ [](PluginsReturned => closes = 1)

\* without plugins the channel is closed and the callback returns nil
C28_Witness ==
  /\ PluginsReturned
  /\ plugins = << >>
  /\ closes = 1
  /\ rpResult = [err |-> "nil", count |-> 0]

(***************************************************************************)
(* Properties of onSync (checked under SpecSync).                          *)
(***************************************************************************)
\* onSync returned without an error of the API
SyncReturned == syPc = "done" /\ syResult \in {"nil", "failed"}

\* the check run of the commit before, once onSync has returned
RunBefore == RunsOn(runs, Before)[1]

\* C29: when onSync returns without an error of the API there is a check run
\* on the commit after with the status, conclusion and output of the check
\* run on the commit before, whether that one was finished or had to be
\* validated first; and onSync returns an error when the conclusion is
\* "failure".
C29_SyncDuplicatesTheCheckRun ==
  SyncReturned =>
    /\ \E i \in 1..Len(runs) :
         /\ runs[i].sha = After
         /\ runs[i].status = RunBefore.status
         /\ runs[i].conclusion = RunBefore.conclusion
         /\ runs[i].summary = RunBefore.summary
    /\ RunBefore.conclusion = "failure" => syResult = "failed"

(***************************************************************************)
(* Properties of the release-notes command (checked under SpecNotes).      *)
(***************************************************************************)
\* the branch name the command is to run on: the value of -branch, and the
\* current branch when -branch is not given
WantedBranchName ==
  IF flagBranch # << >> THEN flagBranch ELSE currentBranch.name

\* C30: the branch handed to ReleaseFromBranch and used for the range of the
\* changes is the value of -branch when that is given, with or without
\* -from, and the current branch when it is not given, also with -from.
C30_RunsOnTheFlagBranch ==
  /\ (rnPc \in {"parse", "changes"}) => notesBranchName = WantedBranchName
  /\ (rnPc = "done" /\ rnResult = "not a valid release branch") =>
       /\ notesBranchName = WantedBranchName
       /\ flagBranch = << >> => currentBranch.ok
  /\ (rnPc = "done" /\ rnRange # NoRange) =>
       /\ ReleaseFromBranch(WantedBranchName).ok
       /\ rnRange.branch.Major = ReleaseFromBranch(WantedBranchName).b.Major
       /\ rnRange.branch.Minor = ReleaseFromBranch(WantedBranchName).b.Minor

====
